---- MODULE Spec2Model ----
(***************************************************************************)
(* Lineage graph builder of healthcare-data-harmonization-lineage          *)
(* (graph/generate.go, graph/graph.go, graph/adapter.go).                  *)
(*                                                                         *)
(* Encoding of the whistler IR (mbp.* protobuf messages):                  *)
(*   every message is a record with an mtype field;                        *)
(*   a dotted name or path is the sequence of its components, i.e. the     *)
(*   result of strings.Split(s, "."): "a.b" is <<"a", "b">>;              *)
(*   a float constant is written as the integer of the same value.         *)
(***************************************************************************)
EXTENDS Integers, Sequences, FiniteSets, TLC

(***************************************************************************)
(* Bounds of the model                                                     *)
(***************************************************************************)
\* number of calls of New in one process
MaxBuilds == 2
\* depth of nested addAncestorLineages calls at which the goroutine stack is
\* taken to be exhausted
MaxDepth == 12

NoNode == -1

(***************************************************************************)
(* IR messages                                                             *)
(***************************************************************************)
NilMsg == [mtype |-> "nil"]

VS(source, val, projector, additional) ==
    [mtype |-> "ValueSource", source |-> source, val |-> val,
     projector |-> projector, additional_arg |-> additional]

ConstBool(b)   == VS("const_bool", b, "", <<>>)
ConstInt(i)    == VS("const_int", i, "", <<>>)
ConstFloat(f)  == VS("const_float", f, "", <<>>)
ConstString(s) == VS("const_string", s, "", <<>>)
FromInput(arg, field) == VS("from_input", [arg |-> arg, field |-> field], "", <<>>)
FromDestination(path) == VS("from_destination", path, "", <<>>)
FromLocalVar(path)    == VS("from_local_var", path, "", <<>>)
ProjectedValue(inner) == VS("projected_value", inner, "", <<>>)
\* a call  name(first, rest...) ; a call without arguments has no source
Call(name, args) ==
    IF args = <<>> THEN VS("nil", 0, name, <<>>)
    ELSE [Head(args) EXCEPT !.projector = name, !.additional_arg = Tail(args)]

FieldMapping(kind, name, source, condition) ==
    [mtype |-> "FieldMapping", target |-> [kind |-> kind, name |-> name],
     value_source |-> source, condition |-> condition]
Field(name, source)        == FieldMapping("target_field", name, source, NilMsg)
FieldIf(name, cond, source) == FieldMapping("target_field", name, source, cond)
Var(name, source)          == FieldMapping("target_local_var", name, source, NilMsg)
RootField(name, source)    == FieldMapping("target_root_field", name, source, NilMsg)
OutField(name, source)     == FieldMapping("target_object", name, source, NilMsg)

ProjectorDefinition(name, mapping) ==
    [mtype |-> "ProjectorDefinition", name |-> name, mapping |-> mapping]

MappingConfig(projector, root_mapping) ==
    [projector |-> projector, root_mapping |-> root_mapping]

\* proto getters are nil-safe
GetSource(m)    == IF m.mtype = "ValueSource" THEN m.source ELSE "nil"
GetProjector(m) == IF m.mtype = "ValueSource" THEN m.projector ELSE ""
GetAdditionalArg(m) == IF m.mtype = "ValueSource" THEN m.additional_arg ELSE <<>>


(***************************************************************************)
(* Built-in projector table (builtins.BuiltinFunctions) and name prefixes  *)
(***************************************************************************)
BuiltinFunctions == {"$Not", "$Eq", "$And"}
\* the projector names that strings.HasPrefix(name, anon_prefix) accepts
AnonBlockNames == {"$anon_block_1"}
HasAnonPrefix(name) == name \in AnonBlockNames

(***************************************************************************)
(* Nodes (graph.go)                                                        *)
(***************************************************************************)
BlankNode(type, id, context, msg) ==
    [type |-> type, id |-> id, Name |-> <<>>, Context |-> context,
     IsVariable |-> FALSE, IsOverwrite |-> FALSE, IsRoot |-> FALSE, IsOut |-> FALSE,
     IsBuiltin |-> FALSE, Index |-> 0, Field |-> <<>>, Value |-> 0, msg |-> msg]

\* cmp.Equal(a.protoMsg(), b.protoMsg(), protocmp.Transform())
protoMsgEqual(a, b) == a.msg.mtype = b.msg.mtype /\ a.msg = b.msg

EmptyMap == <<>>
\* m[k] = v for a Go map m
MapSet(m, k, v) == [x \in (DOMAIN m) \cup {k} |-> IF x = k THEN v ELSE m[x]]

(***************************************************************************)
(* newNode and the node constructors                                       *)
(***************************************************************************)
\* variant: every target is given the root scope as its Context
targetNodeRootContext(msg, e, id) ==
    LET base == [BlankNode("Target", id, "root", msg) EXCEPT !.Name = msg.target.name]
    IN  CASE msg.target.kind = "target_field" ->
               [err |-> "", node |-> base]
          [] msg.target.kind = "target_local_var" ->
               [err |-> "", node |-> [base EXCEPT !.IsVariable = TRUE]]
          [] msg.target.kind = "target_root_field" ->
               [err |-> "", node |-> [base EXCEPT !.IsRoot = TRUE]]
          [] msg.target.kind = "target_object" ->
               [err |-> "", node |-> [base EXCEPT !.IsOut = TRUE]]
          [] OTHER -> [err |-> "UnsupportedMessage", node |-> base]

targetNode(msg, e, id) ==
    LET base == [BlankNode("Target", id, e.name, msg) EXCEPT !.Name = msg.target.name]
    IN  CASE msg.target.kind = "target_field" ->
               [err |-> "", node |-> base]
          [] msg.target.kind = "target_local_var" ->
               [err |-> "", node |-> [base EXCEPT !.IsVariable = TRUE]]
          [] msg.target.kind = "target_root_field" ->
               [err |-> "", node |-> [base EXCEPT !.IsRoot = TRUE]]
          [] msg.target.kind = "target_object" ->
               [err |-> "", node |-> [base EXCEPT !.IsOut = TRUE]]
          [] OTHER -> [err |-> "UnsupportedMessage", node |-> base]

\* variant: the node is given the root scope as its Context
fromInputNodeRootContext(msg, e, id) ==
    [BlankNode("Argument", id, "root", msg) EXCEPT
         !.Index = msg.val.arg, !.Field = msg.val.field]

fromInputNode(msg, e, id) ==
    IF msg.val.arg - 1 = Len(e.args)
    THEN [BlankNode("Root", id, e.name, msg) EXCEPT !.Field = msg.val.field]
    ELSE [BlankNode("Argument", id, e.name, msg) EXCEPT
              !.Index = msg.val.arg, !.Field = msg.val.field]

valueSourceNode(msg, e, id) ==
    CASE msg.source = "const_bool" ->
           [err |-> "", node |-> [BlankNode("ConstBool", id, e.name, msg) EXCEPT !.Value = msg.val]]
      [] msg.source = "const_int" ->
           [err |-> "", node |-> [BlankNode("ConstInt", id, e.name, msg) EXCEPT !.Value = msg.val]]
      [] msg.source = "const_float" ->
           [err |-> "", node |-> [BlankNode("ConstFloat", id, e.name, msg) EXCEPT !.Value = msg.val]]
      [] msg.source = "const_string" ->
           [err |-> "", node |-> [BlankNode("ConstString", id, e.name, msg) EXCEPT !.Value = msg.val]]
      [] msg.source = "from_input" ->
           [err |-> "", node |-> fromInputNode(msg, e, id)]
      [] OTHER -> [err |-> "UnsupportedMessage", node |-> BlankNode("none", id, e.name, msg)]

\* the projector names of the model that strings.HasPrefix(name, "$") accepts
DollarNames == BuiltinFunctions \cup AnonBlockNames

\* variant: the flag is taken from the "$" prefix of the name
projectorNodeByPrefix(msg, e, id) ==
    [BlankNode("Projector", id, e.name, msg) EXCEPT
        !.Name = msg.name, !.IsBuiltin = (msg.name \in DollarNames)]

projectorNode(msg, e, id) ==
    [BlankNode("Projector", id, e.name, msg) EXCEPT
        !.Name = msg.name, !.IsBuiltin = (msg.name \in BuiltinFunctions)]

\* id is the value newIncID() hands out; it is consumed only when err = ""
newNode(msg, e, id) ==
    CASE msg.mtype = "FieldMapping" -> targetNode(msg, e, id)
      [] msg.mtype = "ValueSource" -> valueSourceNode(msg, e, id)
      [] msg.mtype = "ProjectorDefinition" -> [err |-> "", node |-> projectorNode(msg, e, id)]
      [] OTHER -> [err |-> "UnsupportedMessage", node |-> BlankNode("none", id, e.name, msg)]

(***************************************************************************)
(* Recursion check                                                         *)
(***************************************************************************)
\* outcome of scanning a list of start nodes in order: the first "yes" or "error"
RECURSIVE isRecursiveHelper(_, _, _)
RECURSIVE isRecursiveScan(_, _, _)

\* isRecursiveHelper without the stop at an Argument node
isRecursiveHelperThroughArgs(g, newNodeID, currNodeID) ==
    IF currNodeID \notin DOMAIN g.Nodes \/ newNodeID \notin DOMAIN g.Nodes THEN "error"
    ELSE IF protoMsgEqual(g.Nodes[newNodeID], g.Nodes[currNodeID]) THEN "yes"
    ELSE IF currNodeID \notin DOMAIN g.Edges THEN "error"
    ELSE isRecursiveScan(g, newNodeID, g.Edges[currNodeID])

isRecursiveHelper(g, newNodeID, currNodeID) ==
    IF currNodeID \notin DOMAIN g.Nodes \/ newNodeID \notin DOMAIN g.Nodes THEN "error"
    ELSE IF g.Nodes[currNodeID].type = "Argument" THEN "no"
    ELSE IF protoMsgEqual(g.Nodes[newNodeID], g.Nodes[currNodeID]) THEN "yes"
    ELSE IF currNodeID \notin DOMAIN g.Edges THEN "error"
    ELSE isRecursiveScan(g, newNodeID, g.Edges[currNodeID])

isRecursiveScan(g, newNodeID, ancestors) ==
    IF ancestors = <<>> THEN "no"
    ELSE LET r == isRecursiveHelper(g, newNodeID, Head(ancestors))
         IN  IF r # "no" THEN r ELSE isRecursiveScan(g, newNodeID, Tail(ancestors))

\* isRecursive taking as previous appearances the nodes with the new node's id
\* instead of the nodes with its payload
isRecursiveByID(g, n) ==
    LET previousAppearences == {id \in DOMAIN g.Nodes : id = n.id}
        missing == {id \in previousAppearences : id \notin DOMAIN g.Edges}
        decisive == {isRecursiveScan(g, n.id, g.Edges[id]) :
                        id \in previousAppearences \ missing} \ {"no"}
    IN  IF missing # {} THEN {"error"}
        ELSE IF decisive = {} THEN {"no"} ELSE decisive

\* the set of results isRecursive can give: g.Nodes is ranged over in any order,
\* and the first decisive start node is the first decisive one of some appearance
isRecursive(g, n) ==
    LET previousAppearences ==
            {id \in DOMAIN g.Nodes : protoMsgEqual(g.Nodes[id], n)}
        missing == {id \in previousAppearences : id \notin DOMAIN g.Edges}
        decisive == {isRecursiveScan(g, n.id, g.Edges[id]) :
                        id \in previousAppearences \ missing} \ {"no"}
    IN  IF missing # {} THEN {"error"}
        ELSE IF decisive = {} THEN {"no"} ELSE decisive

(***************************************************************************)
(* addNode                                                                 *)
(***************************************************************************)
\* addNodeInstall that gives a Target no ConditionEdges list
addNodeInstallNoConditions(g, node) ==
    LET g1 == [g EXCEPT !.Nodes = MapSet(g.Nodes, node.id, node),
                        !.Edges = MapSet(g.Edges, node.id, <<>>)]
    IN  IF node.type = "Projector"
        THEN [g1 EXCEPT !.ArgumentEdges = MapSet(g1.ArgumentEdges, node.id, <<>>)]
        ELSE g1

addNodeInstall(g, node) ==
    LET g1 == [g EXCEPT !.Nodes = MapSet(g.Nodes, node.id, node),
                        !.Edges = MapSet(g.Edges, node.id, <<>>)]
        g2 == IF node.type = "Projector"
              THEN [g1 EXCEPT !.ArgumentEdges = MapSet(g1.ArgumentEdges, node.id, <<>>)]
              ELSE g1
    IN  IF node.type = "Target"
        THEN [g2 EXCEPT !.ConditionEdges = MapSet(g2.ConditionEdges, node.id, <<>>)]
        ELSE g2

\* variant: a condition is appended to the Edges list
graphToAppendNoConditions(isArg, isCondition) ==
    IF isArg THEN "ArgumentEdges" ELSE "Edges"

graphToAppend(isArg, isCondition) ==
    IF isArg THEN "ArgumentEdges" ELSE IF isCondition THEN "ConditionEdges" ELSE "Edges"

\* addNode that, for an argument attachment, also appends the argument to its
\* own Edges list
addNodeArgSelfEdge(g, node, descendant, isArg, isCondition, nodeIsNew) ==
    IF nodeIsNew /\ node.id \in DOMAIN g.Nodes THEN {[err |-> "AlreadyInGraph", g |-> g]}
    ELSE
    LET g1 == IF nodeIsNew THEN addNodeInstall(g, node) ELSE g
        which == graphToAppend(isArg, isCondition)
    IN  IF descendant = NoNode THEN {[err |-> "", g |-> g1]}
        ELSE IF descendant \notin DOMAIN g1[which] THEN {[err |-> "DanglingEdge", g |-> g1]}
        ELSE LET g2 == [g1 EXCEPT ![which] =
                           MapSet(g1[which], descendant, Append(g1[which][descendant], node.id))]
                 g3 == [g2 EXCEPT !.Edges =
                           MapSet(g2.Edges, node.id, Append(g2.Edges[node.id], node.id))]
             IN  IF isArg THEN {[err |-> "", g |-> g3]}
                 ELSE {[err |-> CASE r = "error" -> "RecursionCheckFailed"
                                  [] r = "yes" -> "RecursiveMapping"
                                  [] OTHER -> "",
                        g |-> g2] : r \in isRecursive(g2, node)}

\* addNode that appends the id after the node's own to the descendant's list
addNodeOffByOne(g, node, descendant, isArg, isCondition, nodeIsNew) ==
    IF nodeIsNew /\ node.id \in DOMAIN g.Nodes THEN {[err |-> "AlreadyInGraph", g |-> g]}
    ELSE
    LET g1 == IF nodeIsNew THEN addNodeInstall(g, node) ELSE g
        which == graphToAppend(isArg, isCondition)
    IN  IF descendant = NoNode THEN {[err |-> "", g |-> g1]}
        ELSE IF descendant \notin DOMAIN g1[which] THEN {[err |-> "DanglingEdge", g |-> g1]}
        ELSE LET g2 == [g1 EXCEPT ![which] =
                           MapSet(g1[which], descendant,
                                  Append(g1[which][descendant], node.id + 1))]
             IN  IF isArg THEN {[err |-> "", g |-> g2]}
                 ELSE {[err |-> CASE r = "error" -> "RecursionCheckFailed"
                                  [] r = "yes" -> "RecursiveMapping"
                                  [] OTHER -> "",
                        g |-> g2] : r \in isRecursive(g2, node)}

\* addNode that appends a condition to the Edges list of the descendant as well
addNodeConditionInEdges(g, node, descendant, isArg, isCondition, nodeIsNew) ==
    IF nodeIsNew /\ node.id \in DOMAIN g.Nodes THEN {[err |-> "AlreadyInGraph", g |-> g]}
    ELSE
    LET g1 == IF nodeIsNew THEN addNodeInstall(g, node) ELSE g
        which == graphToAppend(isArg, isCondition)
    IN  IF descendant = NoNode THEN {[err |-> "", g |-> g1]}
        ELSE IF descendant \notin DOMAIN g1[which] THEN {[err |-> "DanglingEdge", g |-> g1]}
        ELSE LET g2 == [g1 EXCEPT ![which] =
                           MapSet(g1[which], descendant, Append(g1[which][descendant], node.id))]
                 g3 == IF which = "ConditionEdges"
                       THEN [g2 EXCEPT !.Edges =
                                MapSet(g2.Edges, descendant, Append(g2.Edges[descendant], node.id))]
                       ELSE g2
             IN  IF isArg THEN {[err |-> "", g |-> g3]}
                 ELSE {[err |-> CASE r = "error" -> "RecursionCheckFailed"
                                  [] r = "yes" -> "RecursiveMapping"
                                  [] OTHER -> "",
                        g |-> g3] : r \in isRecursive(g3, node)}

\* the set of outcomes [err, g] of addNode; descendant is a node id or NoNode
addNode(g, node, descendant, isArg, isCondition, nodeIsNew) ==
    IF nodeIsNew /\ node.id \in DOMAIN g.Nodes THEN {[err |-> "AlreadyInGraph", g |-> g]}
    ELSE
    LET g1 == IF nodeIsNew THEN addNodeInstall(g, node) ELSE g
        which == graphToAppend(isArg, isCondition)
    IN  IF descendant = NoNode THEN {[err |-> "", g |-> g1]}
        ELSE IF descendant \notin DOMAIN g1[which] THEN {[err |-> "DanglingEdge", g |-> g1]}
        ELSE LET g2 == [g1 EXCEPT ![which] =
                           MapSet(g1[which], descendant, Append(g1[which][descendant], node.id))]
             IN  IF isArg THEN {[err |-> "", g |-> g2]}
                 ELSE {[err |-> CASE r = "error" -> "RecursionCheckFailed"
                                  [] r = "yes" -> "RecursiveMapping"
                                  [] OTHER -> "",
                        g |-> g2] : r \in isRecursive(g2, node)}


(***************************************************************************)
(* Path lookup in cached lineages                                          *)
(* targetLineage = [node |-> id of the target, childTargets |-> map]       *)
(* argLineage    = [node |-> id, hasChildTargets, childTargets |-> map]    *)
(***************************************************************************)
\* variant: a name matches only when all of its parts are in the path
matchUpToDiffWholeName(path, targetPath) ==
    IF Len(path) <= Len(targetPath) /\ (\A i \in 1..Len(path) : path[i] = targetPath[i])
    THEN Len(path) ELSE 0

matchUpToDiff(path, targetPath) ==
    LET minLen == IF Len(targetPath) < Len(path) THEN Len(targetPath) ELSE Len(path)
    IN  IF \A i \in 1..minLen : path[i] = targetPath[i] THEN minLen ELSE 0

RECURSIVE Orders(_)
\* the orders in which a Go range statement can visit the keys S of a map
Orders(S) ==
    IF S = {} THEN {<<>>}
    ELSE UNION {{<<x>> \o p : p \in Orders(S \ {x})} : x \in S}

RECURSIVE ConcatAll(_)
\* the concatenations that take one sequence of each set, in order
ConcatAll(ss) ==
    IF ss = <<>> THEN {<<>>}
    ELSE {a \o b : a \in Head(ss), b \in ConcatAll(Tail(ss))}

RECURSIVE findNodesInGraph(_, _, _)
\* the set of node lists the call can return; the empty list stands for the error
\* return (a nil list), which is what the recursive call sites append
findNodesInGraph(path, currNode, lineages) ==
    IF Len(path) = 0
    THEN IF currNode = NoNode THEN {<<>>} ELSE {<<currNode>>}
    ELSE LET keys == {k \in DOMAIN lineages : matchUpToDiff(k, path) > 0}
             rest(k) == SubSeq(path, matchUpToDiff(k, path) + 1, Len(path))
             perKey(k) == ConcatAll([i \in 1..Len(lineages[k]) |->
                              findNodesInGraph(rest(k), lineages[k][i].node,
                                               lineages[k][i].childTargets)])
         IN  UNION {ConcatAll([i \in 1..Len(o) |-> perKey(o[i])]) : o \in Orders(keys)}

\* variant: a name keeps only the lineage recorded last
appendOrAddTargetLineageOverwrite(childTargets, lineage, name) ==
    MapSet(childTargets, name, <<lineage>>)

appendOrAddTargetLineage(childTargets, lineage, name) ==
    IF name \in DOMAIN childTargets
    THEN MapSet(childTargets, name, Append(childTargets[name], lineage))
    ELSE MapSet(childTargets, name, <<lineage>>)

appendOrAddID(idLists, id, name) ==
    IF name \in DOMAIN idLists
    THEN MapSet(idLists, name, Append(idLists[name], id))
    ELSE MapSet(idLists, name, <<id>>)

RECURSIVE writeTargetLineage(_, _, _)
RECURSIVE writeTargetLineageList(_, _, _)
\* [err, childTargets]: childTargets extended by the targets found under node
writeTargetLineage(node, childTargets, g) ==
    IF node \notin DOMAIN g.Edges
    THEN [err |-> "NotInGraph", childTargets |-> childTargets]
    ELSE writeTargetLineageList(g.Edges[node], childTargets, g)

writeTargetLineageList(idList, childTargets, g) ==
    IF idList = <<>> THEN [err |-> "", childTargets |-> childTargets]
    ELSE LET ancestorID == Head(idList) IN
         IF ancestorID \notin DOMAIN g.Nodes
         THEN [err |-> "NotInGraph", childTargets |-> childTargets]
         ELSE IF g.Nodes[ancestorID].type = "Target"
         THEN IF ancestorID \notin DOMAIN g.targetLineages
              THEN [err |-> "NoTargetLineage", childTargets |-> childTargets]
              ELSE writeTargetLineageList(Tail(idList),
                       appendOrAddTargetLineage(childTargets, g.targetLineages[ancestorID],
                                                g.Nodes[ancestorID].Name), g)
         ELSE LET r == writeTargetLineage(ancestorID, childTargets, g)
              IN  IF r.err # "" THEN r
                  ELSE writeTargetLineageList(Tail(idList), r.childTargets, g)

targetLineageFromGraph(node, g) ==
    LET r == writeTargetLineage(node, EmptyMap, g)
    IN  [err |-> r.err, lineage |-> [node |-> node, childTargets |-> r.childTargets]]

(***************************************************************************)
(* Ancestor extraction.  A whistlerNode is [msg, projSource, nodeInGraph]. *)
(* Every operator returns the SET of results the call can produce (one per *)
(* map iteration order); results carry err = "" on success.                *)
(***************************************************************************)
WNode(msg, projSource, nodeInGraph) ==
    [msg |-> msg, projSource |-> projSource, nodeInGraph |-> nodeInGraph]

NodesOk(nodes) == [err |-> "", nodes |-> nodes]
NodesErr(err)  == [err |-> err, nodes |-> <<>>]

lookupResult(found, source, err) ==
    IF found = <<>> THEN NodesErr(err)
    ELSE NodesOk([i \in 1..Len(found) |-> WNode(source, NilMsg, found[i])])

\* variant: the projected value wrapped by $Not becomes a node of its own, a
\* second $Not call on the inner value
whistlerNodesFromValueSourceWrapped(source, e, fromMapping, projectors) ==
    IF fromMapping /\ GetProjector(source) # ""
    THEN IF GetProjector(source) \notin DOMAIN projectors
         THEN {NodesErr("UnknownProjector")}
         ELSE {NodesOk(<<WNode(projectors[GetProjector(source)], source, NoNode)>>)}
    ELSE CASE GetSource(source) = "from_destination" ->
                {lookupResult(found, source, "UnknownDestination") :
                    found \in findNodesInGraph(source.val, NoNode, e.targets)}
           [] GetSource(source) = "from_local_var" ->
                {lookupResult(found, source, "UnknownLocalVar") :
                    found \in findNodesInGraph(source.val, NoNode, e.vars)}
           [] GetSource(source) = "projected_value" ->
                IF source.val.mtype = "nil" THEN {NodesErr("MissingProjectedValue")}
                ELSE IF GetProjector(source) = "$Not" /\ GetProjector(source.val) = ""
                THEN {NodesOk(<<WNode(projectors["$Not"], source.val, NoNode)>>)}
                ELSE IF GetProjector(source.val) \notin DOMAIN projectors
                THEN {NodesErr("UnknownProjector")}
                ELSE {NodesOk(<<WNode(projectors[GetProjector(source.val)], source.val, NoNode)>>)}
           [] OTHER -> {NodesOk(<<WNode(source, NilMsg, NoNode)>>)}

RECURSIVE whistlerNodesFromValueSource(_, _, _, _)
whistlerNodesFromValueSource(source, e, fromMapping, projectors) ==
    IF fromMapping /\ GetProjector(source) # ""
    THEN IF GetProjector(source) \notin DOMAIN projectors
         THEN {NodesErr("UnknownProjector")}
         ELSE {NodesOk(<<WNode(projectors[GetProjector(source)], source, NoNode)>>)}
    ELSE CASE GetSource(source) = "from_destination" ->
                {lookupResult(found, source, "UnknownDestination") :
                    found \in findNodesInGraph(source.val, NoNode, e.targets)}
           [] GetSource(source) = "from_local_var" ->
                {lookupResult(found, source, "UnknownLocalVar") :
                    found \in findNodesInGraph(source.val, NoNode, e.vars)}
           [] GetSource(source) = "projected_value" ->
                IF source.val.mtype = "nil" THEN {NodesErr("MissingProjectedValue")}
                ELSE IF GetProjector(source) = "$Not" /\ GetProjector(source.val) = ""
                THEN whistlerNodesFromValueSource(source.val, e, fromMapping, projectors)
                ELSE IF GetProjector(source.val) \notin DOMAIN projectors
                THEN {NodesErr("UnknownProjector")}
                ELSE {NodesOk(<<WNode(projectors[GetProjector(source.val)], source.val, NoNode)>>)}
           [] OTHER -> {NodesOk(<<WNode(source, NilMsg, NoNode)>>)}

RECURSIVE projectorArgsFrom(_, _, _)
\* args[k] for the sources srcs, left to right, stopping at the first error
projectorArgsFrom(srcs, e, projectors) ==
    IF srcs = <<>> THEN {[err |-> "", args |-> <<>>]}
    ELSE {IF h.err # "" THEN [err |-> h.err, args |-> <<>>]
          ELSE IF t.err # "" THEN [err |-> t.err, args |-> <<>>]
          ELSE [err |-> "", args |-> <<h.nodes>> \o t.args] :
             h \in whistlerNodesFromValueSource(Head(srcs), e, FALSE, projectors),
             t \in projectorArgsFrom(Tail(srcs), e, projectors)}

projectorArgs(projValueSource, e, projectors) ==
    IF GetSource(projValueSource) = "nil" THEN {[err |-> "", args |-> <<>>]}
    ELSE projectorArgsFrom(<<projValueSource>> \o GetAdditionalArg(projValueSource),
                           e, projectors)

RECURSIVE flatten(_)
flatten(wstlrNodeLists) ==
    IF wstlrNodeLists = <<>> THEN <<>>
    ELSE Head(wstlrNodeLists) \o flatten(Tail(wstlrNodeLists))

\* variant: a $And condition is treated like any other projector call
fieldMappingConditionsKeepAnd(msg, e, projectors) ==
    LET rootCondition == msg.condition IN
    IF rootCondition.mtype = "nil" THEN {NodesOk(<<>>)}
    ELSE whistlerNodesFromValueSource(rootCondition, e, TRUE, projectors)

fieldMappingConditions(msg, e, projectors) ==
    LET rootCondition == msg.condition IN
    IF rootCondition.mtype = "nil" THEN {NodesOk(<<>>)}
    ELSE IF GetProjector(rootCondition) = "$And"
    THEN {IF r.err # "" THEN NodesErr(r.err) ELSE NodesOk(flatten(r.args)) :
             r \in projectorArgs(rootCondition, e, projectors)}
    ELSE whistlerNodesFromValueSource(rootCondition, e, TRUE, projectors)

Ancestors(err, mainAncestors, projArgs, conditions) ==
    [err |-> err, mainAncestors |-> mainAncestors, projectorArgs |-> projArgs,
     conditions |-> conditions]
AncestorsErr(err) == Ancestors(err, <<>>, <<>>, <<>>)

fieldMappingAncestors(msg, e, projectors) ==
    IF msg.value_source.mtype = "nil" THEN {AncestorsErr("MissingSource")}
    ELSE {IF m.err # "" THEN AncestorsErr(m.err)
          ELSE IF c.err # "" THEN AncestorsErr(c.err)
          ELSE Ancestors("", m.nodes, <<>>, c.nodes) :
             m \in whistlerNodesFromValueSource(msg.value_source, e, TRUE, projectors),
             c \in fieldMappingConditions(msg, e, projectors)}

RECURSIVE argumentAncestorFrom(_, _)
\* the whistler nodes of the bindings argNodes of one slot, in order
argumentAncestorFrom(field, argNodes) ==
    IF argNodes = <<>> THEN {NodesOk(<<>>)}
    ELSE LET argNode == Head(argNodes)
             first == IF field = <<>> THEN {NodesOk(<<WNode(NilMsg, NilMsg, argNode.node)>>)}
                      ELSE IF ~argNode.hasChildTargets THEN {NodesErr("LineageNotCached")}
                      ELSE {lookupResult(found, NilMsg, "PathNotFound") :
                              found \in findNodesInGraph(field, argNode.node, argNode.childTargets)}
         IN  {IF h.err # "" THEN h ELSE IF t.err # "" THEN t ELSE NodesOk(h.nodes \o t.nodes) :
                 h \in first, t \in argumentAncestorFrom(field, Tail(argNodes))}

\* variant: every reference is resolved against the first slot
argumentAncestorFirstSlot(msg, e) ==
    LET index == msg.val.arg - 1 IN
    IF index < 0 \/ index >= Len(e.args) THEN {NodesErr("ArgIndexOutOfRange")}
    ELSE argumentAncestorFrom(msg.val.field, e.args[1])

argumentAncestor(msg, e) ==
    LET index == msg.val.arg - 1 IN
    IF index < 0 \/ index >= Len(e.args) THEN {NodesErr("ArgIndexOutOfRange")}
    ELSE argumentAncestorFrom(msg.val.field, e.args[index + 1])

\* variant: every index above the bound slots is taken for $root
fromInputAncestorLenient(msg, e) ==
    IF msg.val.arg - 1 >= Len(e.args) THEN {NodesOk(<<>>)} ELSE argumentAncestor(msg, e)

fromInputAncestor(msg, e) ==
    IF msg.val.arg - 1 = Len(e.args) THEN {NodesOk(<<>>)} ELSE argumentAncestor(msg, e)

valueSourceAncestors(msg, e) ==
    CASE msg.source \in {"const_bool", "const_int", "const_float", "const_string"} ->
            {NodesOk(<<>>)}
      [] msg.source = "from_input" -> fromInputAncestor(msg, e)
      [] OTHER -> {NodesErr("UnsupportedMessage")}

projectorMappings(msg) == [i \in 1..Len(msg.mapping) |-> WNode(msg.mapping[i], NilMsg, NoNode)]

projectorAncestors(msg, projValueSource, e, projectors) ==
    {IF a.err # "" THEN AncestorsErr(a.err)
     ELSE Ancestors("", projectorMappings(msg), a.args, <<>>) :
        a \in projectorArgs(projValueSource, e, projectors)}

getAllAncestors(wstlrNode, e, projectors) ==
    CASE wstlrNode.msg.mtype = "FieldMapping" ->
            fieldMappingAncestors(wstlrNode.msg, e, projectors)
      [] wstlrNode.msg.mtype = "ValueSource" ->
            {IF r.err # "" THEN AncestorsErr(r.err) ELSE Ancestors("", r.nodes, <<>>, <<>>) :
                r \in valueSourceAncestors(wstlrNode.msg, e)}
      [] wstlrNode.msg.mtype = "ProjectorDefinition" ->
            projectorAncestors(wstlrNode.msg, wstlrNode.projSource, e, projectors)
      [] OTHER -> {AncestorsErr("UnsupportedMessage")}


(***************************************************************************)
(* Mapping configs handed to New                                           *)
(***************************************************************************)
\* x: true
CfgConst == MappingConfig(<<>>, <<Field(<<"x">>, ConstBool(TRUE))>>)

\* x: proj1(true, 5.0)   def proj1(a, b) { y: a }
CfgProjArgs ==
    MappingConfig(<<ProjectorDefinition("proj1", <<Field(<<"y">>, FromInput(1, <<>>))>>)>>,
                  <<Field(<<"x">>, Call("proj1", <<ConstBool(TRUE), ConstFloat(5)>>))>>)

\* x: proj1()   def proj1() { z: proj1() }
CfgRecSimple ==
    MappingConfig(<<ProjectorDefinition("proj1", <<Field(<<"z">>, Call("proj1", <<>>))>>)>>,
                  <<Field(<<"x">>, Call("proj1", <<>>))>>)

\* x: foo()   def foo() { y: bar() }   def bar() { z: foo() }
CfgCycle ==
    MappingConfig(<<ProjectorDefinition("foo", <<Field(<<"y">>, Call("bar", <<>>))>>),
                    ProjectorDefinition("bar", <<Field(<<"z">>, Call("foo", <<>>))>>)>>,
                  <<Field(<<"x">>, Call("foo", <<>>))>>)

\* x: id(id(1))   def id(a) { r: a }
CfgHigherOrder ==
    MappingConfig(<<ProjectorDefinition("id", <<Field(<<"r">>, FromInput(1, <<>>))>>)>>,
                  <<Field(<<"x">>, Call("id", <<ProjectedValue(Call("id", <<ConstInt(1)>>))>>))>>)

\* x: g(g(1))   def g(a) { r: h(a) }   def h(b) { q: b }
CfgHigherOrderNested ==
    MappingConfig(<<ProjectorDefinition("g", <<Field(<<"r">>, Call("h", <<FromInput(1, <<>>)>>))>>),
                    ProjectorDefinition("h", <<Field(<<"q">>, FromInput(1, <<>>))>>)>>,
                  <<Field(<<"x">>, Call("g", <<ProjectedValue(Call("g", <<ConstInt(1)>>))>>))>>)

\* x: foo()   def foo() { y: bar(foo()) }   def bar(a) { z: a }
CfgArgRec ==
    MappingConfig(<<ProjectorDefinition("foo",
                        <<Field(<<"y">>, Call("bar", <<ProjectedValue(Call("foo", <<>>))>>))>>),
                    ProjectorDefinition("bar", <<Field(<<"z">>, FromInput(1, <<>>))>>)>>,
                  <<Field(<<"x">>, Call("foo", <<>>))>>)

\* x: foo()   def foo() { y (if foo()): 1 }
CfgCondRec ==
    MappingConfig(<<ProjectorDefinition("foo",
                        <<FieldIf(<<"y">>, Call("foo", <<>>), ConstInt(1))>>)>>,
                  <<Field(<<"x">>, Call("foo", <<>>))>>)

\* a: foo()   a.b: 2   z: dest a.b      def foo() { b: 1 }
CfgDotted ==
    MappingConfig(<<ProjectorDefinition("foo", <<Field(<<"b">>, ConstInt(1))>>)>>,
                  <<Field(<<"a">>, Call("foo", <<>>)),
                    Field(<<"a", "b">>, ConstInt(2)),
                    Field(<<"z">>, FromDestination(<<"a", "b">>))>>)

\* x (if $Eq(4, 2)): 5
CfgCond ==
    MappingConfig(<<>>, <<FieldIf(<<"x">>, Call("$Eq", <<ConstFloat(4), ConstFloat(2)>>),
                                  ConstFloat(5))>>)

\* out o: 2147483647   root r: $root.f   var v: "s"   w: v
CfgRootOut ==
    MappingConfig(<<>>, <<OutField(<<"o">>, ConstInt(2147483647)),
                          RootField(<<"r">>, FromInput(1, <<"f">>)),
                          Var(<<"v">>, ConstString("s")),
                          Field(<<"w">>, FromLocalVar(<<"v">>))>>)

\* x: 1   def proj1() { z: proj1() }      (proj1 is never called)
CfgUncalledRec ==
    MappingConfig(<<ProjectorDefinition("proj1", <<Field(<<"z">>, Call("proj1", <<>>))>>)>>,
                  <<Field(<<"x">>, ConstInt(1))>>)

\* a (if true): "a1"   a (if false): "a2"   x: dest a
CfgDestCond ==
    MappingConfig(<<>>, <<FieldIf(<<"a">>, ConstBool(TRUE), ConstString("a1")),
                          FieldIf(<<"a">>, ConstBool(FALSE), ConstString("a2")),
                          Field(<<"x">>, FromDestination(<<"a">>))>>)

\* a (if true): 1   a (if false): 2   x: pair(dest a, 3)   def pair(p, q) { r: q   s: p }
CfgDestArg ==
    MappingConfig(<<ProjectorDefinition("pair", <<Field(<<"r">>, FromInput(2, <<>>)),
                                                  Field(<<"s">>, FromInput(1, <<>>))>>)>>,
                  <<FieldIf(<<"a">>, ConstBool(TRUE), ConstInt(1)),
                    FieldIf(<<"a">>, ConstBool(FALSE), ConstInt(2)),
                    Field(<<"x">>, Call("pair", <<FromDestination(<<"a">>), ConstInt(3)>>))>>)

\* x: f(g())   def f(p) { r: p.a.b }   def g() { a: h() }   def h() { b: 1 }
CfgArgField ==
    MappingConfig(<<ProjectorDefinition("f", <<Field(<<"r">>, FromInput(1, <<"a", "b">>))>>),
                    ProjectorDefinition("g", <<Field(<<"a">>, Call("h", <<>>))>>),
                    ProjectorDefinition("h", <<Field(<<"b">>, ConstInt(1))>>)>>,
                  <<Field(<<"x">>, Call("f", <<ProjectedValue(Call("g", <<>>))>>))>>)

\* x (if $And(true, $Eq(1, 2), false)): 5
CfgAnd ==
    MappingConfig(<<>>,
        <<FieldIf(<<"x">>,
                  Call("$And", <<ConstBool(TRUE),
                                 ProjectedValue(Call("$Eq", <<ConstInt(1), ConstInt(2)>>)),
                                 ConstBool(FALSE)>>),
                  ConstInt(5))>>)

\* the else branches   b (if $Not(true)): 2   c (if $Not((bar()))): 3   d (if $Not(bar())): 4
\* def bar() { }
CfgNot ==
    MappingConfig(<<ProjectorDefinition("bar", <<>>)>>,
        <<FieldIf(<<"b">>, Call("$Not", <<ProjectedValue(ConstBool(TRUE))>>), ConstInt(2)),
          FieldIf(<<"c">>, Call("$Not", <<ProjectedValue(ProjectedValue(Call("bar", <<>>)))>>),
                  ConstInt(3)),
          FieldIf(<<"d">>, Call("$Not", <<ProjectedValue(Call("bar", <<>>))>>), ConstInt(4))>>)

\* var v: 1   x: $anon_block_1()   def $anon_block_1() { y: v }
CfgAnon ==
    MappingConfig(<<ProjectorDefinition("$anon_block_1", <<Field(<<"y">>, FromLocalVar(<<"v">>))>>)>>,
                  <<Var(<<"v">>, ConstInt(1)),
                    Field(<<"x">>, Call("$anon_block_1", <<>>))>>)

\* var v: 1   x (if $Eq(1, 1)): $anon_block_1()   def $anon_block_1() { var v: 2   y: v }
CfgAnonOwnVar ==
    MappingConfig(<<ProjectorDefinition("$anon_block_1",
                        <<Var(<<"v">>, ConstInt(2)), Field(<<"y">>, FromLocalVar(<<"v">>))>>)>>,
                  <<Var(<<"v">>, ConstInt(1)),
                    FieldIf(<<"x">>, Call("$Eq", <<ConstInt(1), ConstInt(1)>>),
                            Call("$anon_block_1", <<>>))>>)

\* x: f(1)   def f(a) { y: g(a) }   def g(b) { z: b }
CfgPassOn ==
    MappingConfig(<<ProjectorDefinition("f", <<Field(<<"y">>, Call("g", <<FromInput(1, <<>>)>>))>>),
                    ProjectorDefinition("g", <<Field(<<"z">>, FromInput(1, <<>>))>>)>>,
                  <<Field(<<"x">>, Call("f", <<ConstInt(1)>>))>>)

\* a: foo()   x: dest a.b   def foo() { b (if true): "b1"   b (if false): "b2" }
CfgDestCondField ==
    MappingConfig(<<ProjectorDefinition("foo",
                        <<FieldIf(<<"b">>, ConstBool(TRUE), ConstString("b1")),
                          FieldIf(<<"b">>, ConstBool(FALSE), ConstString("b2"))>>)>>,
                  <<Field(<<"a">>, Call("foo", <<>>)),
                    Field(<<"x">>, FromDestination(<<"a", "b">>))>>)

\* a: 1   var w: 2   x: f(dest a, w)   def f(p, q) { s: p   t: q   z: dest a   u: w }
CfgLeak ==
    MappingConfig(<<ProjectorDefinition("f", <<Field(<<"s">>, FromInput(1, <<>>)),
                                               Field(<<"t">>, FromInput(2, <<>>)),
                                               Field(<<"z">>, FromDestination(<<"a">>)),
                                               Field(<<"u">>, FromLocalVar(<<"w">>))>>)>>,
                  <<Field(<<"a">>, ConstInt(1)),
                    Var(<<"w">>, ConstInt(2)),
                    Field(<<"x">>, Call("f", <<FromDestination(<<"a">>), FromLocalVar(<<"w">>)>>))>>)

\* x: f(1)   def f(a) { r: $root   y: arg3 }      ($root is argument 2 in f)
CfgArgHigh ==
    MappingConfig(<<ProjectorDefinition("f", <<Field(<<"r">>, FromInput(2, <<>>)),
                                               Field(<<"y">>, FromInput(3, <<>>))>>)>>,
                  <<Field(<<"x">>, Call("f", <<ConstInt(1)>>))>>)

\* x: f(1)   def f(a) { y: arg0 }
CfgArgZero ==
    MappingConfig(<<ProjectorDefinition("f", <<Field(<<"y">>, FromInput(0, <<>>))>>)>>,
                  <<Field(<<"x">>, Call("f", <<ConstInt(1)>>))>>)

\* x: arg2 in the root scope, which binds no argument
CfgRootArgHigh ==
    MappingConfig(<<>>, <<Field(<<"x">>, FromInput(2, <<>>))>>)

\* out a: 1   b: dest a   x: dest a
CfgDestTwice ==
    MappingConfig(<<>>, <<OutField(<<"a">>, ConstInt(1)),
                          Field(<<"b">>, FromDestination(<<"a">>)),
                          Field(<<"x">>, FromDestination(<<"a">>))>>)

\* y: 1   y: dest y   y: dest y
CfgSelfRefTwice ==
    MappingConfig(<<>>, <<Field(<<"y">>, ConstInt(1)),
                          Field(<<"y">>, FromDestination(<<"y">>)),
                          Field(<<"y">>, FromDestination(<<"y">>))>>)

\* y: dest q
CfgUnknownDest == MappingConfig(<<>>, <<Field(<<"y">>, FromDestination(<<"q">>))>>)

Configs == {CfgConst, CfgProjArgs, CfgRecSimple, CfgCycle, CfgHigherOrder,
            CfgHigherOrderNested, CfgArgRec, CfgCondRec,
            CfgDotted, CfgCond, CfgRootOut, CfgUncalledRec, CfgUnknownDest,
            CfgDestCond, CfgDestArg, CfgArgField, CfgAnd, CfgNot, CfgAnon, CfgAnonOwnVar,
            CfgPassOn, CfgDestCondField, CfgLeak, CfgArgHigh, CfgArgZero,
            CfgRootArgHigh, CfgDestTwice, CfgSelfRefTwice}
\* the configs a later call of New in the same process is given
RebuildConfigs == {CfgConst, CfgDotted, CfgRecSimple}
\* the ids the test harness hands to setIncID
ResetIDs == {0}

(***************************************************************************)
(* WriteProtobuf (adapter)                                                 *)
(***************************************************************************)
\* the largest int32
MaxInt32 == 2147483647

\* the Go conversion int32(x) of an int x (the low 32 bits, two's complement),
\* written for an x at most one wrap away from the int32 range
ToInt32(x) ==
    IF x > MaxInt32 THEN x - MaxInt32 - MaxInt32 - 2
    ELSE IF x < (0 - MaxInt32) - 1 THEN x + MaxInt32 + MaxInt32 + 2
    ELSE x

\* newEdgeList that appends to the slice it already made Len(idList) long
newEdgeListAppend(idList) ==
    [Edges |-> [i \in 1..Len(idList) |-> 0] \o [i \in 1..Len(idList) |-> ToInt32(idList[i])]]

newEdgeList(idList) == [Edges |-> [i \in 1..Len(idList) |-> ToInt32(idList[i])]]

\* one gpb.Node: arm is the one-of case that is set, msg the message in it
PbNode(arm, msg) == [err |-> "", arm |-> arm, msg |-> msg]

convertNode(n) ==
    CASE n.type = "Target" ->
           PbNode("target_node",
                  [Id |-> ToInt32(n.id), Name |-> n.Name, Context |-> n.Context,
                   IsVariable |-> n.IsVariable, IsOverwrite |-> n.IsOverwrite,
                   IsRoot |-> n.IsRoot, IsOut |-> n.IsOut])
      [] n.type = "ConstInt" ->
           PbNode("const_int_node",
                  [Id |-> ToInt32(n.id), Value |-> ToInt32(n.Value), Context |-> n.Context])
      [] n.type = "ConstFloat" ->
           PbNode("const_float_node",
                  [Id |-> ToInt32(n.id), Value |-> n.Value, Context |-> n.Context])
      [] n.type = "ConstBool" ->
           PbNode("const_bool_node",
                  [Id |-> ToInt32(n.id), Value |-> n.Value, Context |-> n.Context])
      [] n.type = "ConstString" ->
           PbNode("const_string_node",
                  [Id |-> ToInt32(n.id), Value |-> n.Value, Context |-> n.Context])
      [] n.type = "Projector" ->
           PbNode("projector_node",
                  [Id |-> ToInt32(n.id), Name |-> n.Name, IsBuiltin |-> n.IsBuiltin,
                   Context |-> n.Context])
      [] n.type = "Argument" ->
           PbNode("argument_node",
                  [Id |-> ToInt32(n.id), Index |-> ToInt32(n.Index), Field |-> n.Field,
                   Context |-> n.Context])
      [] n.type = "Root" ->
           PbNode("root_node",
                  [Id |-> ToInt32(n.id), Field |-> n.Field, Context |-> n.Context])
      [] OTHER -> [err |-> "UnsupportedNode", arm |-> "", msg |-> NilMsg]

\* the key int32(id) of every id of the map m; ids with the same low 32 bits share
\* a key, and the entry written last (any of them) stays
PbKeys(m) == {ToInt32(id) : id \in DOMAIN m}
PbSource(m, k) == CHOOSE id \in DOMAIN m : ToInt32(id) = k

\* pbGraph.<map>[int32(id)] = newEdgeList(idList)
PbEdges(m) == [k \in PbKeys(m) |-> newEdgeList(m[PbSource(m, k)])]

\* the *gpb.Graph and error WriteProtobuf(g) returns
WriteProtobuf(g) ==
    IF \E id \in DOMAIN g.Nodes : convertNode(g.Nodes[id]).err # ""
    THEN [written |-> TRUE, err |-> "ConvertNode"]
    ELSE [written |-> TRUE, err |-> "",
          Nodes |-> [k \in PbKeys(g.Nodes) |-> convertNode(g.Nodes[PbSource(g.Nodes, k)])],
          Edges |-> PbEdges(g.Edges),
          ArgumentEdges |-> PbEdges(g.ArgumentEdges),
          ConditionEdges |-> PbEdges(g.ConditionEdges),
          RootAndOutTargets |-> [name \in DOMAIN g.RootAndOutTargets |->
                                     newEdgeList(g.RootAndOutTargets[name])]]

(***************************************************************************)
(* State                                                                   *)
(***************************************************************************)
VARIABLES
    graph,      \* the Graph under construction in New, then the Graph New returned
    autoIncID,  \* graph.go: the package-level id counter (nil is 0)
    mpc,        \* the mapping config of the current call of New
    envs,       \* the env objects allocated so far; an *env is an index
    stack,      \* the active addAncestorLineages calls, outermost first
    status,     \* "idle", "running", "ok", "err", "overflow"
    errKind,    \* the error New returned
    builds,     \* number of calls of New so far
    startID,    \* autoIncID when the current call of New started
    prev,       \* the previous call of New: [mpc, startID, status, graph]
    pbGraph,    \* the last result of WriteProtobuf
    rec         \* a call of isRecursive made on a hand-built graph, as in TestIsRecursive

buildVars == <<graph, autoIncID, mpc, envs, stack, status, errKind, builds, startID, prev, pbGraph>>
vars == <<graph, autoIncID, mpc, envs, stack, status, errKind, builds, startID, prev, pbGraph, rec>>

\* no call of isRecursive outside New has been made
RecIdle == [phase |-> "idle", g |-> <<>>, node |-> NoNode, stack |-> <<>>,
            result |-> "none", calls |-> 0, last |-> "none"]

EmptyGraph ==
    [Nodes |-> EmptyMap, Edges |-> EmptyMap, ArgumentEdges |-> EmptyMap,
     ConditionEdges |-> EmptyMap, RootAndOutTargets |-> EmptyMap,
     targetLineages |-> EmptyMap]

NoConfig == MappingConfig(<<>>, <<>>)
NoPb == [written |-> FALSE]

\* New, lines 59-68: user projectors by name (a later one wins), then the built-ins
Projectors(c) ==
    LET user == {c.projector[i].name : i \in 1..Len(c.projector)}
        last(name) == CHOOSE i \in 1..Len(c.projector) :
                         /\ c.projector[i].name = name
                         /\ \A j \in i+1..Len(c.projector) : c.projector[j].name # name
    IN  [name \in user \cup BuiltinFunctions |->
            IF name \in BuiltinFunctions THEN ProjectorDefinition(name, <<>>)
            ELSE c.projector[last(name)]]

NewEnv(name, parent, args) ==
    [name |-> name, parent |-> parent, args |-> args, targets |-> EmptyMap, vars |-> EmptyMap]

\* one active call addAncestorLineages(allAncestors, envs[env], desc)
Frame(desc, env, isProj, allAncestors) ==
    [desc |-> desc, env |-> env,
     aenv |-> IF isProj THEN 0 ELSE env,
     phase |-> IF isProj THEN "args" ELSE "body",
     args |-> allAncestors.projectorArgs,
     slot |-> 1,
     envArgs |-> [k \in 1..Len(allAncestors.projectorArgs) |-> <<>>],
     conds |-> allAncestors.conditions,
     mains |-> allAncestors.mainAncestors,
     pending |-> NoNode, pendKind |-> "none"]

Init ==
    /\ rec = RecIdle
    /\ graph = EmptyGraph
    /\ autoIncID = 0
    /\ mpc = NoConfig
    /\ envs = <<>>
    /\ stack = <<>>
    /\ status = "idle"
    /\ errKind = ""
    /\ builds = 0
    /\ startID = 0
    /\ prev = [mpc |-> NoConfig, startID |-> 0, status |-> "idle", graph |-> EmptyGraph]
    /\ pbGraph = NoPb


(***************************************************************************)
(* addWhistlerLineage up to its recursive call                             *)
(***************************************************************************)
\* newIncID that increments the counter twice
newIncIDTwice(counter) == [id |-> counter, next |-> counter + 2]

\* newIncID(), graph.go lines 66-74: the id handed out and the counter afterwards
newIncID(counter) == [id |-> counter, next |-> counter + 1]

LineageStep(err, g, node, isNew, nextID, anc) ==
    [err |-> err, g |-> g, node |-> node, isNew |-> isNew, nextID |-> nextID, anc |-> anc]

\* variant: an id is taken from the counter for a node that is already in the graph
addWhistlerLineageAllocates(wstlrNode, e, g, counter, descendant, isArg, isCondition, projectors) ==
    LET isNew == wstlrNode.nodeInGraph = NoNode
        inc == newIncID(counter)
        got == IF isNew THEN newNode(wstlrNode.msg, e, inc.id)
               ELSE [err |-> "", node |-> g.Nodes[wstlrNode.nodeInGraph]]
        nextID == inc.next
    IN  IF got.err # "" THEN {LineageStep(got.err, g, NoNode, isNew, counter, AncestorsErr(""))}
        ELSE UNION {
               IF a.err # "" THEN {LineageStep(a.err, a.g, NoNode, isNew, nextID, AncestorsErr(""))}
               ELSE IF ~isNew
               THEN {LineageStep("", a.g, got.node.id, FALSE, nextID, AncestorsErr(""))}
               ELSE {LineageStep(anc.err, a.g, got.node.id, TRUE, nextID, anc) :
                        anc \in getAllAncestors(wstlrNode, e, projectors)}
               : a \in addNode(g, got.node, descendant, isArg, isCondition, isNew)}

\* the set of outcomes of getNode, addNode and getAllAncestors for wstlrNode;
\* counter is the current value of the id counter, nextID its value afterwards
addWhistlerLineage(wstlrNode, e, g, counter, descendant, isArg, isCondition, projectors) ==
    LET isNew == wstlrNode.nodeInGraph = NoNode
        inc == newIncID(counter)
        got == IF isNew THEN newNode(wstlrNode.msg, e, inc.id)
               ELSE [err |-> "", node |-> g.Nodes[wstlrNode.nodeInGraph]]
        nextID == IF isNew THEN inc.next ELSE counter
    IN  IF got.err # "" THEN {LineageStep(got.err, g, NoNode, isNew, counter, AncestorsErr(""))}
        ELSE UNION {
               IF a.err # "" THEN {LineageStep(a.err, a.g, NoNode, isNew, nextID, AncestorsErr(""))}
               ELSE IF ~isNew
               THEN {LineageStep("", a.g, got.node.id, FALSE, nextID, AncestorsErr(""))}
               ELSE {LineageStep(anc.err, a.g, got.node.id, TRUE, nextID, anc) :
                        anc \in getAllAncestors(wstlrNode, e, projectors)}
               : a \in addNode(g, got.node, descendant, isArg, isCondition, isNew)}

(***************************************************************************)
(* What the callers do with the node addWhistlerLineage returned           *)
(***************************************************************************)
RECURSIVE projectorChildTargets(_, _, _)
\* addArgLineages, lines 162-169
projectorChildTargets(targetIDs, childTargets, g) ==
    IF targetIDs = <<>> THEN [err |-> "", childTargets |-> childTargets]
    ELSE IF Head(targetIDs) \notin DOMAIN g.targetLineages
    THEN [err |-> "NoTargetLineage", childTargets |-> childTargets]
    ELSE LET lineage == g.targetLineages[Head(targetIDs)]
         IN  projectorChildTargets(Tail(targetIDs),
                 appendOrAddTargetLineage(childTargets, lineage, g.Nodes[lineage.node].Name), g)

\* addArgLineages, lines 149-174: the argLineage of the argument node
argLineageOf(node, g) ==
    CASE g.Nodes[node].type = "Target" ->
            IF node \notin DOMAIN g.targetLineages
            THEN [err |-> "NoTargetLineage", node |-> node, hasChildTargets |-> FALSE,
                  childTargets |-> EmptyMap]
            ELSE [err |-> "", node |-> node, hasChildTargets |-> TRUE,
                  childTargets |-> g.targetLineages[node].childTargets]
      [] g.Nodes[node].type = "Projector" ->
            IF node \notin DOMAIN g.Edges
            THEN [err |-> "NotInGraph", node |-> node, hasChildTargets |-> FALSE,
                  childTargets |-> EmptyMap]
            ELSE LET r == projectorChildTargets(g.Edges[node], EmptyMap, g)
                 IN  [err |-> r.err, node |-> node, hasChildTargets |-> TRUE,
                      childTargets |-> r.childTargets]
      [] OTHER -> [err |-> "", node |-> node, hasChildTargets |-> FALSE,
                   childTargets |-> EmptyMap]

\* addMainAncestorLineages, lines 206-220: [err, g, env] after recording a target
recordTarget(node, g, env) ==
    IF g.Nodes[node].type # "Target" THEN [err |-> "", g |-> g, env |-> env]
    ELSE LET r == targetLineageFromGraph(node, g)
             n == g.Nodes[node]
             g1 == [g EXCEPT !.targetLineages = MapSet(g.targetLineages, node, r.lineage)]
             g2 == IF n.IsOut \/ n.IsRoot
                   THEN [g1 EXCEPT !.RootAndOutTargets =
                                       appendOrAddID(g1.RootAndOutTargets, node, n.Name)]
                   ELSE g1
             env1 == IF n.IsVariable
                     THEN [env EXCEPT !.vars = appendOrAddTargetLineage(env.vars, r.lineage, n.Name)]
                     ELSE [env EXCEPT !.targets = appendOrAddTargetLineage(env.targets, r.lineage, n.Name)]
         IN  IF r.err # "" THEN [err |-> r.err, g |-> g, env |-> env]
             ELSE [err |-> "", g |-> g2, env |-> env1]

\* the caller's part after addWhistlerLineage returned node to frame fr:
\* [err, frame, g, envs]
afterLineage(kind, fr, node, g, es) ==
    CASE kind = "arg" ->
            LET l == argLineageOf(node, g)
            IN  [err |-> l.err, g |-> g, envs |-> es,
                 frame |-> [fr EXCEPT !.envArgs[fr.slot] =
                               Append(fr.envArgs[fr.slot],
                                      [node |-> l.node, hasChildTargets |-> l.hasChildTargets,
                                       childTargets |-> l.childTargets]),
                            !.pending = NoNode, !.pendKind = "none"]]
      [] kind = "main" ->
            LET r == recordTarget(node, g, es[fr.aenv])
            IN  [err |-> r.err, g |-> r.g, envs |-> [es EXCEPT ![fr.aenv] = r.env],
                 frame |-> [fr EXCEPT !.pending = NoNode, !.pendKind = "none"]]
      [] OTHER ->
            [err |-> "", g |-> g, envs |-> es,
             frame |-> [fr EXCEPT !.pending = NoNode, !.pendKind = "none"]]

(***************************************************************************)
(* Actions                                                                 *)
(***************************************************************************)
Top == stack[Len(stack)]
Running == status = "running" /\ stack # <<>>
ArgsLeft(fr) == {i \in 1..Len(fr.args) : fr.args[i] # <<>>}
FrameDone(fr) == fr.phase = "body" /\ fr.conds = <<>> /\ fr.mains = <<>>

\* New returns (Graph{}, err)
Fail(kind, nextID) ==
    /\ status' = "err"
    /\ errKind' = kind
    /\ graph' = EmptyGraph
    /\ autoIncID' = nextID
    /\ stack' = <<>>
    /\ envs' = <<>>
    /\ UNCHANGED <<mpc, builds, startID, prev, pbGraph>>

\* the goroutine stack is exhausted: New returns neither a graph nor an error
Overflow(nextID) ==
    /\ status' = "overflow"
    /\ errKind' = ""
    /\ graph' = EmptyGraph
    /\ autoIncID' = nextID
    /\ stack' = <<>>
    /\ envs' = <<>>
    /\ UNCHANGED <<mpc, builds, startID, prev, pbGraph>>

\* the top frame fr (its work item already taken off) has called
\* addWhistlerLineage(w, envs[ei], fr.desc, ...) with outcome out
Continue(out, kind, fr, ei) ==
    IF out.err # "" THEN Fail(out.err, out.nextID)
    ELSE IF out.isNew
    THEN IF Len(stack) >= MaxDepth THEN Overflow(out.nextID)
         ELSE /\ stack' = [stack EXCEPT ![Len(stack)] =
                              [fr EXCEPT !.pending = out.node, !.pendKind = kind]]
                          \o <<Frame(out.node, ei, out.g.Nodes[out.node].type = "Projector", out.anc)>>
              /\ graph' = out.g
              /\ autoIncID' = out.nextID
              /\ UNCHANGED <<mpc, envs, status, errKind, builds, startID, prev, pbGraph>>
    ELSE LET r == afterLineage(kind, fr, out.node, out.g, envs)
         IN  IF r.err # "" THEN Fail(r.err, out.nextID)
             ELSE /\ stack' = [stack EXCEPT ![Len(stack)] = r.frame]
                  /\ graph' = r.g
                  /\ envs' = r.envs
                  /\ autoIncID' = out.nextID
                  /\ UNCHANGED <<mpc, status, errKind, builds, startID, prev, pbGraph>>

\* New(mpc), lines 58-89, up to the call of addAncestorLineages
New(c) ==
    /\ UNCHANGED rec
    /\ status \notin {"running", "overflow"}
    /\ builds < MaxBuilds
    /\ builds > 0 => c \in RebuildConfigs
    /\ prev' = [mpc |-> mpc, startID |-> startID, status |-> status, graph |-> graph]
    /\ mpc' = c
    /\ graph' = EmptyGraph
    /\ envs' = <<NewEnv("root", 0, <<>>)>>
    /\ stack' = <<Frame(NoNode, 1, FALSE,
                        Ancestors("", [i \in 1..Len(c.root_mapping) |->
                                          WNode(c.root_mapping[i], NilMsg, NoNode)], <<>>, <<>>))>>
    /\ status' = "running"
    /\ errKind' = ""
    /\ builds' = builds + 1
    /\ startID' = autoIncID
    /\ pbGraph' = NoPb
    /\ UNCHANGED autoIncID

\* setIncID(id), graph.go lines 58-64
setIncID(id) ==
    /\ UNCHANGED rec
    /\ status \notin {"running", "overflow"}
    /\ builds < MaxBuilds
    /\ autoIncID # id
    /\ autoIncID' = id
    /\ UNCHANGED <<graph, mpc, envs, stack, status, errKind, builds, startID, prev, pbGraph>>

\* addArgLineages, lines 142-148: the next argument of the projector call
AddArgLineage ==
    /\ UNCHANGED rec
    /\ Running
    /\ Top.phase = "args"
    /\ ArgsLeft(Top) # {}
    /\ LET i == CHOOSE k \in ArgsLeft(Top) : \A m \in ArgsLeft(Top) : k <= m
           fr == [Top EXCEPT !.args[i] = Tail(Top.args[i]), !.slot = i]
       IN  \E out \in addWhistlerLineage(Head(Top.args[i]), envs[Top.env], graph, autoIncID,
                                         Top.desc, TRUE, FALSE, Projectors(mpc)) :
              Continue(out, "arg", fr, Top.env)

\* addArgLineages, lines 177-187: the environment of the projector body
OpenProjectorEnv ==
    /\ UNCHANGED rec
    /\ Running
    /\ Top.phase = "args"
    /\ ArgsLeft(Top) = {}
    /\ LET name == graph.Nodes[Top.desc].Name
           parentEnv == IF HasAnonPrefix(name) THEN Top.env ELSE 0
       IN  /\ envs' = Append(envs, NewEnv(name, parentEnv, Top.envArgs))
           /\ stack' = [stack EXCEPT ![Len(stack)] =
                           [Top EXCEPT !.phase = "body", !.aenv = Len(envs) + 1]]
    /\ UNCHANGED <<graph, autoIncID, mpc, status, errKind, builds, startID, prev, pbGraph>>

\* addConditionLineages, lines 190-197: the next condition
AddConditionLineage ==
    /\ UNCHANGED rec
    /\ Running
    /\ Top.phase = "body"
    /\ Top.conds # <<>>
    /\ LET fr == [Top EXCEPT !.conds = Tail(Top.conds)]
       IN  \E out \in addWhistlerLineage(Head(Top.conds), envs[Top.env], graph, autoIncID,
                                         Top.desc, FALSE, TRUE, Projectors(mpc)) :
              Continue(out, "cond", fr, Top.env)

\* variant: a main ancestor may be attached while conditions are still waiting
AddMainAncestorLineageEarly ==
    /\ UNCHANGED rec
    /\ Running
    /\ Top.phase = "body"
    /\ Top.mains # <<>>
    /\ LET fr == [Top EXCEPT !.mains = Tail(Top.mains)]
       IN  \E out \in addWhistlerLineage(Head(Top.mains), envs[Top.aenv], graph, autoIncID,
                                         Top.desc, FALSE, FALSE, Projectors(mpc)) :
              Continue(out, "main", fr, Top.aenv)

\* addMainAncestorLineages, lines 199-223: the next main ancestor
AddMainAncestorLineage ==
    /\ UNCHANGED rec
    /\ Running
    /\ Top.phase = "body"
    /\ Top.conds = <<>>
    /\ Top.mains # <<>>
    /\ LET fr == [Top EXCEPT !.mains = Tail(Top.mains)]
       IN  \E out \in addWhistlerLineage(Head(Top.mains), envs[Top.aenv], graph, autoIncID,
                                         Top.desc, FALSE, FALSE, Projectors(mpc)) :
              Continue(out, "main", fr, Top.aenv)

\* addAncestorLineages of a fresh node returns nil to addWhistlerLineage, which
\* returns the node to the loop that called it
ReturnLineage ==
    /\ UNCHANGED rec
    /\ Running
    /\ Len(stack) > 1
    /\ FrameDone(Top)
    /\ LET caller == stack[Len(stack) - 1]
           r == afterLineage(caller.pendKind, caller, caller.pending, graph, envs)
       IN  IF r.err # "" THEN Fail(r.err, autoIncID)
           ELSE /\ stack' = [SubSeq(stack, 1, Len(stack) - 1) EXCEPT ![Len(stack) - 1] = r.frame]
                /\ graph' = r.g
                /\ envs' = r.envs
                /\ UNCHANGED <<autoIncID, mpc, status, errKind, builds, startID, prev, pbGraph>>

\* New, line 92: return graph, nil
ReturnGraph ==
    /\ UNCHANGED rec
    /\ Running
    /\ Len(stack) = 1
    /\ FrameDone(Top)
    /\ status' = "ok"
    /\ stack' = <<>>
    /\ envs' = <<>>
    /\ UNCHANGED <<graph, autoIncID, mpc, errKind, builds, startID, prev, pbGraph>>

\* WriteProtobuf(g) on the graph the last successful New returned
WritePb ==
    /\ UNCHANGED rec
    /\ status = "ok"
    /\ ~pbGraph.written
    /\ pbGraph' = WriteProtobuf(graph)
    /\ UNCHANGED <<graph, autoIncID, mpc, envs, stack, status, errKind, builds, startID, prev>>

Next ==
    \/ \E c \in Configs : New(c)
    \/ \E id \in ResetIDs : setIncID(id)
    \/ AddArgLineage
    \/ OpenProjectorEnv
    \/ AddConditionLineage
    \/ AddMainAncestorLineage
    \/ ReturnLineage
    \/ ReturnGraph
    \/ WritePb

Spec == Init /\ [][Next]_vars

(***************************************************************************)
(* isRecursive called directly on a graph, one stack frame per step        *)
(***************************************************************************)
MaxRecDepth == 6
MaxRecCalls == 2

RecIDs == 0..2

\* test_helper.go: the nodes the tests build graphs of
makeProjNode(name, context, id) ==
    [BlankNode("Projector", id, context, ProjectorDefinition(name, <<>>)) EXCEPT !.Name = name]
makeTargetNode(name, context, id) ==
    [BlankNode("Target", id, context, FieldMapping("target_field", <<name>>, NilMsg, NilMsg))
        EXCEPT !.Name = <<name>>]
makeArgNode(index, field, context, id) ==
    [BlankNode("Argument", id, context, FromInput(index, field)) EXCEPT
        !.Index = index, !.Field = field]
makeBoolNode(val, context, id) ==
    [BlankNode("ConstBool", id, context, ConstBool(val)) EXCEPT !.Value = val]

RecGraph(nodes, edges) == [EmptyGraph EXCEPT !.Nodes = nodes, !.Edges = edges]

\* TestIsRecursive, "not recursive"
TestNotRecursive ==
    RecGraph(0 :> makeTargetNode("x", "root", 0) @@ 1 :> makeBoolNode(TRUE, "root", 1),
             0 :> <<1>> @@ 1 :> <<>>)

\* TestIsRecursive, "recursive": the edges 1 -> 2 -> 3 -> 1 form a cycle
TestRecursive ==
    RecGraph(0 :> makeProjNode("foo", "root", 0) @@ 1 :> makeTargetNode("x", "foo", 1)
             @@ 2 :> makeProjNode("bar", "foo", 2) @@ 3 :> makeTargetNode("y", "bar", 3)
             @@ 4 :> makeProjNode("foo", "bar", 4),
             0 :> <<1>> @@ 1 :> <<2>> @@ 2 :> <<3>> @@ 3 :> <<1>> @@ 4 :> <<0>>)

\* TestIsRecursive, "badly-formed graph"
TestBadlyFormed == RecGraph(0 :> makeBoolNode(TRUE, "root", 0), <<>>)

\* the ancestor lists given to a node of the small graphs
RecEdgeLists == {<<>>, <<1, 2>>} \cup {<<j>> : j \in RecIDs}

\* graphs of a projector foo, a target or an argument, and a projector foo or bar
SmallRecGraphs ==
    {RecGraph(0 :> makeProjNode("foo", "root", 0) @@ 1 :> mid @@ 2 :> makeProjNode(name, "foo", 2),
              edges)
     : mid \in {makeTargetNode("x", "foo", 1), makeArgNode(1, <<>>, "foo", 1)},
       name \in {"foo", "bar"},
       edges \in [RecIDs -> RecEdgeLists]}

RecGraphs == {TestNotRecursive, TestRecursive, TestBadlyFormed} \cup SmallRecGraphs

RecDone(result) ==
    [rec EXCEPT !.phase = "done", !.stack = <<>>, !.result = result]

\* isRecursive(g, g.Nodes[n]), lines 482-495: the previous appearances are gathered
\* in the order the range over g.Nodes yields them, their ancestors concatenated
IsRecursiveCall(g, n) ==
    /\ rec.phase # "running"
    /\ rec.calls < MaxRecCalls
    /\ rec.calls > 0 => (g = rec.g /\ n = rec.node)
    /\ LET previousAppearences ==
                {id \in DOMAIN g.Nodes : protoMsgEqual(g.Nodes[id], g.Nodes[n])}
           started == [rec EXCEPT !.g = g, !.node = n, !.calls = rec.calls + 1,
                                  !.last = rec.result]
       IN  IF \E id \in previousAppearences : id \notin DOMAIN g.Edges
           THEN rec' = [started EXCEPT !.phase = "done", !.stack = <<>>, !.result = "error"]
           ELSE \E o \in Orders(previousAppearences) :
                   rec' = [started EXCEPT
                              !.phase = "running", !.result = "none",
                              !.stack = <<flatten([i \in 1..Len(o) |-> g.Edges[o[i]]])>>]
    /\ UNCHANGED buildVars

\* one iteration of a loop over ancestors (lines 497-506 and 531-538): the call
\* isRecursiveHelper(g, newNodeID, currNodeID) up to its own loop, lines 510-530
IsRecursiveHelperCall ==
    /\ rec.phase = "running"
    /\ rec.stack[Len(rec.stack)] # <<>>
    /\ LET g == rec.g
           depth == Len(rec.stack)
           currNodeID == Head(rec.stack[depth])
           rest == [rec.stack EXCEPT ![depth] = Tail(rec.stack[depth])]
       IN  rec' = IF currNodeID \notin DOMAIN g.Nodes \/ rec.node \notin DOMAIN g.Nodes
                  THEN RecDone("error")
                  ELSE IF g.Nodes[currNodeID].type = "Argument"
                  THEN [rec EXCEPT !.stack = rest]
                  ELSE IF protoMsgEqual(g.Nodes[rec.node], g.Nodes[currNodeID])
                  THEN RecDone("yes")
                  ELSE IF currNodeID \notin DOMAIN g.Edges
                  THEN RecDone("error")
                  ELSE IF depth >= MaxRecDepth
                  THEN RecDone("overflow")
                  ELSE [rec EXCEPT !.stack = Append(rest, g.Edges[currNodeID])]
    /\ UNCHANGED buildVars

\* a loop over ancestors has ended: the call returns false (lines 507 and 539)
IsRecursiveHelperReturn ==
    /\ rec.phase = "running"
    /\ rec.stack[Len(rec.stack)] = <<>>
    /\ rec' = IF Len(rec.stack) = 1 THEN RecDone("no")
              ELSE [rec EXCEPT !.stack = SubSeq(rec.stack, 1, Len(rec.stack) - 1)]
    /\ UNCHANGED buildVars

NextIsRecursive ==
    \/ \E g \in RecGraphs : \E n \in DOMAIN g.Nodes : IsRecursiveCall(g, n)
    \/ IsRecursiveHelperCall
    \/ IsRecursiveHelperReturn

SpecIsRecursive == Init /\ [][NextIsRecursive]_vars

(***************************************************************************)
(* Properties of the mapping config used by the statements below           *)
(***************************************************************************)
Range(seq) == {seq[i] : i \in DOMAIN seq}

RECURSIVE SubSources(_)
\* a value source with every value source nested in it
SubSources(vs) ==
    IF vs.mtype # "ValueSource" THEN {}
    ELSE {vs}
         \cup (IF vs.source = "projected_value" THEN SubSources(vs.val) ELSE {})
         \cup UNION {SubSources(a) : a \in Range(vs.additional_arg)}

MappingSources(m) == SubSources(m.value_source) \cup SubSources(m.condition)

\* the projectors named anywhere in the mappings ms
CallsIn(ms) ==
    {vs.projector : vs \in UNION {MappingSources(m) : m \in Range(ms)}} \ {""}

\* the projector a mapping's value source invokes as the mapping's own ancestor
HeadCall(vs) ==
    IF vs.mtype # "ValueSource" THEN {}
    ELSE IF vs.projector # "" THEN {vs.projector}
    ELSE IF vs.source = "projected_value" /\ vs.val.mtype = "ValueSource"
    THEN {vs.val.projector}
    ELSE {}

\* the projectors the body of projector p invokes through its mappings' value sources
BodyCalls(c, p) ==
    UNION {HeadCall(m.value_source) : m \in Range(Projectors(c)[p].mapping)}
        \cap DOMAIN Projectors(c)

RECURSIVE BodyClosure(_, _)
\* the projectors reachable from names through bodies' value sources, names included
BodyClosure(c, names) ==
    LET more == names \cup UNION {BodyCalls(c, p) : p \in names}
    IN  IF more = names THEN names ELSE BodyClosure(c, more)

AllCalls(c, p) == CallsIn(Projectors(c)[p].mapping) \cap DOMAIN Projectors(c)

RECURSIVE CallClosure(_, _)
CallClosure(c, names) ==
    LET more == names \cup UNION {AllCalls(c, p) : p \in names}
    IN  IF more = names THEN names ELSE CallClosure(c, more)

\* the projectors the root mappings invoke, directly or through other projectors
Invoked(c) == CallClosure(c, CallsIn(c.root_mapping) \cap DOMAIN Projectors(c))

\* an invoked projector whose body transitively invokes the same projector again
HasBodyCycle(c) ==
    \E p \in Invoked(c) : \E q \in BodyCalls(c, p) : p \in BodyClosure(c, {q})

\* some call passes, as an argument, a call of the projector being called
PassedToItself(c) ==
    \E vs \in UNION {MappingSources(m) :
                        m \in Range(c.root_mapping)
                              \cup UNION {Range(d.mapping) : d \in Range(c.projector)}} :
        /\ vs.projector # ""
        /\ \E arg \in {vs} \cup Range(vs.additional_arg) :
              /\ arg.source = "projected_value"
              /\ arg.val.mtype = "ValueSource"
              /\ arg.val.projector = vs.projector

Returned == status \in {"ok", "err", "overflow"}

(***************************************************************************)
(* Properties of the graph used by the statements below                    *)
(***************************************************************************)
Maps == {"Edges", "ArgumentEdges", "ConditionEdges", "RootAndOutTargets"}

NonArgument(g) == {id \in DOMAIN g.Nodes : g.Nodes[id].type # "Argument"}

\* the Edges successors of id among the nodes that are no Argument node
EdgeSucc(g, id) == Range(g.Edges[id]) \cap NonArgument(g)

RECURSIVE ReachableFrom(_, _)
ReachableFrom(g, ids) ==
    LET more == ids \cup UNION {EdgeSucc(g, id) : id \in ids \cap DOMAIN g.Edges}
    IN  IF more = ids THEN ids ELSE ReachableFrom(g, more)

Acyclic(g) ==
    \A id \in NonArgument(g) \cap DOMAIN g.Edges : id \notin ReachableFrom(g, EdgeSucc(g, id))

NodesOfType(g, type) == {id \in DOMAIN g.Nodes : g.Nodes[id].type = type}

(***************************************************************************)
(* C1                                                                      *)
(***************************************************************************)
\* C1: when New has returned for a mapping config in which an invoked projector's
\* body, through the value sources of its mappings, transitively invokes the same
\* projector again, it has returned an error and the empty graph, never a graph.
C1_RecursionRejected ==
    (Returned /\ HasBodyCycle(mpc)) =>
        (status = "err" /\ errKind = "RecursiveMapping" /\ graph = EmptyGraph)

\* the longer cycle foo -> bar -> foo has been rejected
C1_Witness ==
    /\ mpc = CfgCycle
    /\ status = "err"
    /\ errKind = "RecursiveMapping"

(***************************************************************************)
(* C2                                                                      *)
(***************************************************************************)
\* C2: when New has returned for a mapping config that passes a call of a projector
\* as an argument of a call of the same projector, and no projector body invokes
\* itself, it has returned a graph and no recursion error; in that graph the inner
\* projector node is in the ArgumentEdges list of the outer one.
C2_SelfAsArgument ==
    (Returned /\ PassedToItself(mpc) /\ ~HasBodyCycle(mpc)) =>
        /\ status = "ok"
        /\ errKind = ""
        /\ \E outer, inner \in NodesOfType(graph, "Projector") :
              /\ outer # inner
              /\ graph.Nodes[outer].Name = graph.Nodes[inner].Name
              /\ inner \in Range(graph.ArgumentEdges[outer])

\* x: id(id(1)) has been built, and the Argument node of the outer id's body
\* leads to the inner id
C2_Witness ==
    /\ mpc = CfgHigherOrder
    /\ status = "ok"
    /\ \E a \in NodesOfType(graph, "Argument") :
          \E q \in Range(graph.Edges[a]) : graph.Nodes[q].type = "Projector"

(***************************************************************************)
(* C3                                                                      *)
(***************************************************************************)
\* C3: New terminates for every mapping config: a call of New never expands
\* projector bodies until the stack is exhausted.
C3_NewTerminates == status # "overflow"

(***************************************************************************)
(* C4                                                                      *)
(***************************************************************************)
\* C4: in every graph a successful New returned, the directed graph of all Edges
\* lists, with the Argument nodes removed, has no cycle.
C4_EdgesAcyclic == status = "ok" => Acyclic(graph)

\* a graph with a projector body and an argument binding has been returned
C4_Witness ==
    /\ status = "ok"
    /\ NodesOfType(graph, "Argument") # {}
    /\ \E id \in NonArgument(graph) : Cardinality(ReachableFrom(graph, EdgeSucc(graph, id))) >= 2

(***************************************************************************)
(* C5                                                                      *)
(***************************************************************************)
\* C5: in every state of a build, every id in a list of Edges, ArgumentEdges,
\* ConditionEdges or RootAndOutTargets is a key of Nodes.
C5_NoDanglingIds ==
    \A which \in Maps : \A k \in DOMAIN graph[which] :
        Range(graph[which][k]) \subseteq DOMAIN graph.Nodes

\* a build in progress holds ids in lists of all four maps
C5_Witness ==
    /\ status = "running"
    /\ \E k \in DOMAIN graph.Edges : graph.Edges[k] # <<>>
    /\ \E k \in DOMAIN graph.RootAndOutTargets : graph.RootAndOutTargets[k] # <<>>

\* a build holds ids in ArgumentEdges and ConditionEdges lists
C5_WitnessArgsAndConditions ==
    /\ \E k \in DOMAIN graph.ArgumentEdges : graph.ArgumentEdges[k] # <<>>
    /\ \E k \in DOMAIN graph.ConditionEdges : graph.ConditionEdges[k] # <<>>

(***************************************************************************)
(* C6                                                                      *)
(***************************************************************************)
\* C6: in every graph New returned, the keys of Edges are the keys of Nodes, the
\* keys of ArgumentEdges are the ids of the Projector nodes, and the keys of
\* ConditionEdges are the ids of the Target nodes.
C6_KeySets ==
    status \in {"ok", "err"} =>
        /\ DOMAIN graph.Edges = DOMAIN graph.Nodes
        /\ DOMAIN graph.ArgumentEdges = NodesOfType(graph, "Projector")
        /\ DOMAIN graph.ConditionEdges = NodesOfType(graph, "Target")

\* a returned graph with Projector nodes, Target nodes and other nodes
C6_Witness ==
    /\ status = "ok"
    /\ NodesOfType(graph, "Projector") # {}
    /\ NodesOfType(graph, "Target") # {}
    /\ DOMAIN graph.Nodes # NodesOfType(graph, "Projector") \cup NodesOfType(graph, "Target")

(***************************************************************************)
(* C7                                                                      *)
(***************************************************************************)
\* each node is under its own id, the keys of Nodes are a contiguous range from
\* the build's first id, and a running build has put every id handed out in it
DenseIds ==
    LET n == Cardinality(DOMAIN graph.Nodes) IN
    /\ \A k \in DOMAIN graph.Nodes : graph.Nodes[k].id = k
    /\ DOMAIN graph.Nodes = startID .. (startID + n - 1)
    /\ status = "running" => autoIncID = startID + n

\* a step of a build gives every node it creates an id larger than every id in the graph
LaterIsLarger ==
    (status = "running" /\ status' \in {"running", "ok"}) =>
        /\ DOMAIN graph.Nodes \subseteq DOMAIN graph'.Nodes
        /\ \A k \in DOMAIN graph'.Nodes \ DOMAIN graph.Nodes :
              \A j \in DOMAIN graph.Nodes : k > j

\* C7: in every graph a successful New returned, Nodes[k].ID() = k for every key k,
\* the keys are a contiguous integer range, and a node created later has a larger
\* id than every node created before it.
C7_IdsUniqueDense ==
    /\ [](status \in {"running", "ok"} => DenseIds)
    /\ [][LaterIsLarger]_vars

\* a returned graph of at least six nodes whose ids do not start at 0
C7_Witness ==
    /\ status = "ok"
    /\ startID > 0
    /\ Cardinality(DOMAIN graph.Nodes) >= 6

(***************************************************************************)
(* C8                                                                      *)
(***************************************************************************)
\* C8: a later call of New in the same process numbers its nodes from the first
\* id of the build before it.
C8_AllocatorReset == builds >= 2 => startID = prev.startID

(***************************************************************************)
(* C9                                                                      *)
(***************************************************************************)
\* C9: two successful runs of New on the same mapping config, each starting from
\* the same value of the id counter, return the same Nodes, Edges, ArgumentEdges,
\* ConditionEdges and RootAndOutTargets.
C9_Deterministic ==
    (/\ builds >= 2
     /\ status = "ok" /\ prev.status = "ok"
     /\ mpc = prev.mpc
     /\ startID = prev.startID) =>
        /\ graph.Nodes = prev.graph.Nodes
        /\ \A which \in Maps : graph[which] = prev.graph[which]

(***************************************************************************)
(* C10                                                                     *)
(***************************************************************************)
PbArm(type) ==
    CASE type = "Target" -> "target_node"
      [] type = "ConstBool" -> "const_bool_node"
      [] type = "ConstString" -> "const_string_node"
      [] type = "ConstInt" -> "const_int_node"
      [] type = "ConstFloat" -> "const_float_node"
      [] type = "Projector" -> "projector_node"
      [] type = "Argument" -> "argument_node"
      [] type = "Root" -> "root_node"
      [] OTHER -> ""

\* the payload fields of a node of each variant
PayloadFields(type) ==
    CASE type = "Target" -> {"Name", "IsVariable", "IsOverwrite", "IsRoot", "IsOut"}
      [] type = "Projector" -> {"Name", "IsBuiltin"}
      [] type = "Argument" -> {"Index", "Field"}
      [] type = "Root" -> {"Field"}
      [] OTHER -> {"Value"}

\* C10: WriteProtobuf gives maps nodes, edges, argument_edges, condition_edges and
\* root_and_out_targets with the keys of the graph's maps, every list equal to the
\* graph's list element by element, every node in the one-of arm of its variant
\* with the node's id, context and payload fields, and no target_lineages.
C10_WriteProtobufOneToOne ==
    pbGraph.written =>
        /\ pbGraph.err = ""
        /\ DOMAIN pbGraph = {"written", "err", "Nodes"} \cup Maps
        /\ DOMAIN pbGraph.Nodes = DOMAIN graph.Nodes
        /\ \A which \in Maps :
              /\ DOMAIN pbGraph[which] = DOMAIN graph[which]
              /\ \A k \in DOMAIN graph[which] :
                    /\ Len(pbGraph[which][k].Edges) = Len(graph[which][k])
                    /\ \A i \in 1..Len(graph[which][k]) :
                          pbGraph[which][k].Edges[i] = graph[which][k][i]
        /\ \A k \in DOMAIN graph.Nodes :
              LET n == graph.Nodes[k]
                  pb == pbGraph.Nodes[k]
              IN  /\ pb.arm = PbArm(n.type)
                  /\ pb.arm # ""
                  /\ pb.msg.Id = n.id
                  /\ pb.msg.Context = n.Context
                  /\ DOMAIN pb.msg = {"Id", "Context"} \cup PayloadFields(n.type)
                  /\ \A f \in PayloadFields(n.type) : pb.msg[f] = n[f]

\* a graph with root and out targets, a Root node and the largest int32 as a
\* constant has been written
C10_Witness ==
    /\ pbGraph.written
    /\ DOMAIN graph.RootAndOutTargets # {}
    /\ \E k \in DOMAIN graph.Nodes :
          graph.Nodes[k].type = "ConstInt" /\ graph.Nodes[k].Value = MaxInt32
    /\ \E k \in DOMAIN graph.Nodes : graph.Nodes[k].type = "Root"

\* a graph with an argument list of two ids and a condition list has been written
C10_WitnessLists ==
    /\ pbGraph.written
    /\ \E k \in DOMAIN graph.ArgumentEdges : Len(graph.ArgumentEdges[k]) = 2
    /\ \E k \in DOMAIN graph.ConditionEdges : graph.ConditionEdges[k] # <<>>

(***************************************************************************)
(* C11                                                                     *)
(***************************************************************************)
RECURSIVE EdgesReach(_, _)
\* the nodes reached from ids along Edges lists only
EdgesReach(g, ids) ==
    LET more == ids \cup UNION {Range(g.Edges[id]) : id \in ids \cap DOMAIN g.Edges}
    IN  IF more = ids THEN ids ELSE EdgesReach(g, more)

\* C11 as stated: in a built graph no Argument node is reached from a Target node
\* along Edges lists only.
C11_NoArgumentViaEdges ==
    status = "ok" =>
        \A t \in NodesOfType(graph, "Target") :
            EdgesReach(graph, {t}) \cap NodesOfType(graph, "Argument") = {}

\* C11: in a built graph an Argument node is listed in the Edges list only of a
\* Target node of the same projector body (equal Context, never the root scope) or
\* of another Argument node (a parameter passed on as an argument); so Argument
\* nodes are reached from Target nodes along Edges lists.
C11_ArgumentInBodyEdges ==
    status = "ok" =>
        \A a \in NodesOfType(graph, "Argument") :
            /\ graph.Nodes[a].Context # "root"
            /\ \A k \in DOMAIN graph.Edges :
                  a \in Range(graph.Edges[k]) =>
                      \/ graph.Nodes[k].type = "Argument"
                      \/ /\ graph.Nodes[k].type = "Target"
                         /\ graph.Nodes[k].Context = graph.Nodes[a].Context

\* a parameter passed on: z -> Argument b -> Argument a, and y -> ... -> Argument b
C11_Witness ==
    /\ mpc = CfgPassOn
    /\ status = "ok"
    /\ \E t \in NodesOfType(graph, "Target"), a, b \in NodesOfType(graph, "Argument") :
          /\ b \in Range(graph.Edges[t])
          /\ a \in Range(graph.Edges[b])
          /\ graph.Nodes[t].Context = graph.Nodes[b].Context
          /\ graph.Nodes[a].Context # graph.Nodes[b].Context

(***************************************************************************)
(* C12                                                                     *)
(***************************************************************************)
\* the node ids bound to one slot, in order
SlotIds(slot) == [i \in 1..Len(slot) |-> slot[i].node]

\* the node ids bound to the slots envArgs, slot after slot
ArgIds(envArgs) == flatten([k \in 1..Len(envArgs) |-> SlotIds(envArgs[k])])

\* a mapping of the projector definition def reads its i-th argument
BodyReferences(def, i) ==
    \E m \in Range(def.mapping) :
        \E vs \in MappingSources(m) : vs.source = "from_input" /\ vs.val.arg = i

\* the frame on the stack is that of a materialized node of the given type whose
\* ancestors have all been attached
TopDone(type) ==
    /\ Running
    /\ Top.desc # NoNode
    /\ graph.Nodes[Top.desc].type = type
    /\ FrameDone(Top)

\* once every argument of a call is attached, ArgumentEdges of the Projector node
\* lists the nodes bound to its slots and no Edges list names a node the call made
C12_ArgsAttached ==
    (Running /\ Top.phase = "args" /\ ArgsLeft(Top) = {}) =>
        LET ids == ArgIds(Top.envArgs) IN
        /\ IF ids = <<>>
           THEN Top.desc \in DOMAIN graph.ArgumentEdges => graph.ArgumentEdges[Top.desc] = <<>>
           ELSE Top.desc \in DOMAIN graph.ArgumentEdges /\ graph.ArgumentEdges[Top.desc] = ids
        /\ \A n \in Range(ids) :
              graph.Nodes[n].type # "Target" =>
                  \A k \in DOMAIN graph.Edges : n \notin Range(graph.Edges[k])

\* the Edges list of an Argument node without field path is the list of the nodes
\* bound to the slot Index of the call whose body it is in
C12_ArgumentEdgesAreSlot ==
    (TopDone("Argument") /\ graph.Nodes[Top.desc].Field = <<>>) =>
        LET a == graph.Nodes[Top.desc]
            bound == SlotIds(envs[Top.env].args[a.Index])
        IN  /\ graph.Edges[Top.desc] = bound
            /\ \E j \in 1..Len(stack) :
                  /\ stack[j].desc # NoNode
                  /\ graph.Nodes[stack[j].desc].type = "Projector"
                  /\ stack[j].aenv = Top.env
                  /\ graph.Nodes[stack[j].desc].Name = a.Context
                  /\ Range(bound) \subseteq Range(graph.ArgumentEdges[stack[j].desc])

\* when the body of a call is done, a node made for slot i is named only in the
\* Edges list of the body's Argument nodes with Index i, and in none when the
\* body does not read argument i
C12_UnreferencedHasNoEdge ==
    TopDone("Projector") =>
        \A i \in 1..Len(Top.envArgs) :
            \A n \in Range(SlotIds(Top.envArgs[i])) :
                graph.Nodes[n].type # "Target" =>
                    LET incoming == {k \in DOMAIN graph.Edges : n \in Range(graph.Edges[k])}
                    IN  /\ \A k \in incoming :
                              /\ graph.Nodes[k].type = "Argument"
                              /\ graph.Nodes[k].Context = graph.Nodes[Top.desc].Name
                              /\ graph.Nodes[k].Index = i
                              /\ graph.Nodes[k].Field = <<>>
                        /\ ~BodyReferences(graph.Nodes[Top.desc].msg, i) => incoming = {}

\* C12: the arguments of a projector call are attached to ArgumentEdges of its
\* Projector node, in slot order, and to no Edges list; an Argument node made for
\* a body reference FromInput(i, "") has Index i and as Edges list the nodes bound
\* to slot i, which are in ArgumentEdges of the Projector node; a node made for an
\* argument the body never reads is in no Edges list.
C12_ArgumentsBound ==
    /\ C12_ArgsAttached
    /\ C12_ArgumentEdgesAreSlot
    /\ C12_UnreferencedHasNoEdge

\* x: proj1(true, 5.0) with body y: arg1 has been built: true is in Edges of the
\* Argument node, 5.0 in no Edges list
C12_Witness ==
    /\ mpc = CfgProjArgs
    /\ status = "ok"
    /\ \E p \in NodesOfType(graph, "Projector"), a \in NodesOfType(graph, "Argument") :
          /\ Len(graph.ArgumentEdges[p]) = 2
          /\ graph.Nodes[a].Index = 1
          /\ graph.Edges[a] = <<graph.ArgumentEdges[p][1]>>
          /\ \A k \in DOMAIN graph.Edges :
                graph.ArgumentEdges[p][2] \notin Range(graph.Edges[k])

(***************************************************************************)
(* C13                                                                     *)
(***************************************************************************)
\* C13: once every argument of a call is attached, ArgumentEdges of its Projector
\* node has one entry for each positional argument of the call, and the k-th entry
\* is the node bound to the k-th argument.
C13_OneEntryPerArgument ==
    (Running /\ Top.phase = "args" /\ ArgsLeft(Top) = {} /\ Top.envArgs # <<>>) =>
        /\ Top.desc \in DOMAIN graph.ArgumentEdges
        /\ Len(graph.ArgumentEdges[Top.desc]) = Len(Top.envArgs)
        /\ \A k \in 1..Len(Top.envArgs) :
              SlotIds(Top.envArgs[k]) = <<graph.ArgumentEdges[Top.desc][k]>>

(***************************************************************************)
(* C14                                                                     *)
(***************************************************************************)
\* the loop of the top frame that runs next: "arg", "cond", "main" or "none"
NextKind ==
    IF ~Running THEN "none"
    ELSE IF Top.phase = "args"
    THEN IF ArgsLeft(Top) # {} THEN "arg" ELSE "none"
    ELSE IF Top.conds # <<>> THEN "cond"
    ELSE IF Top.mains # <<>> THEN "main"
    ELSE "none"

\* the whistler node that loop hands to addWhistlerLineage
NextItem ==
    CASE NextKind = "arg" ->
            Head(Top.args[CHOOSE k \in ArgsLeft(Top) : \A m \in ArgsLeft(Top) : k <= m])
      [] NextKind = "cond" -> Head(Top.conds)
      [] NextKind = "main" -> Head(Top.mains)
      [] OTHER -> WNode(NilMsg, NilMsg, NoNode)

\* the next step attaches a node that is already in the graph
ResolvesReference == NextKind # "none" /\ NextItem.nodeInGraph # NoNode

\* the list of the edge map named which that belongs to node id, if any
ListOf(g, which, id) == IF id \in DOMAIN g[which] THEN g[which][id] ELSE <<>>

\* a step that attaches the existing node n to the node Top.desc
ReferenceStep ==
    LET n == NextItem.nodeInGraph
        which == graphToAppend(NextKind = "arg", NextKind = "cond")
    IN  (ResolvesReference /\ status' = "running") =>
            /\ DOMAIN graph'.Nodes = DOMAIN graph.Nodes
            /\ graph'.Nodes = graph.Nodes
            /\ autoIncID' = autoIncID
            /\ Len(stack') = Len(stack)
            /\ graph'[which][Top.desc] = Append(graph[which][Top.desc], n)
            /\ \A w \in {"Edges", "ArgumentEdges", "ConditionEdges"} :
                  \A k \in DOMAIN graph[w] :
                      (w # which \/ k # Top.desc) =>
                          k \in DOMAIN graph'[w] /\ graph'[w][k] = graph[w][k]
            /\ \A w \in {"Edges", "ArgumentEdges", "ConditionEdges"} :
                  DOMAIN graph'[w] = DOMAIN graph[w]
            /\ n # Top.desc

\* C14: a step that resolves a reference to a node already in the graph creates no
\* node and takes no id from the counter, appends the existing id to the list of
\* the referencing node, opens no frame for the ancestors of the referenced node,
\* and leaves every other list, those of the referenced node included, as it was.
C14_ReferenceReusesNode == [][ReferenceStep]_vars

\* r: p.a.b has been resolved: the Argument node for p.a.b has the existing Target
\* node b as its only Edges entry, and b kept its Edges list
C14_Witness ==
    /\ mpc = CfgArgField
    /\ status = "ok"
    /\ \E a \in NodesOfType(graph, "Argument"), t \in NodesOfType(graph, "Target") :
          /\ graph.Nodes[a].Field = <<"a", "b">>
          /\ graph.Nodes[t].Name = <<"b">>
          /\ graph.Edges[a] = <<t>>
          /\ t < a
          /\ Len(graph.Edges[t]) = 1

(***************************************************************************)
(* C15                                                                     *)
(***************************************************************************)
ConstType(source) ==
    CASE source = "const_bool" -> "ConstBool"
      [] source = "const_int" -> "ConstInt"
      [] source = "const_float" -> "ConstFloat"
      [] source = "const_string" -> "ConstString"
      [] OTHER -> "none"

\* node id of g is a node for the value source vs; called is TRUE where a
\* projector named by vs is the node to make, FALSE where vs is read as the
\* first argument of that projector
NodeIsFor(g, id, vs, called) ==
    LET n == g.Nodes[id] IN
    IF called /\ vs.projector # ""
    THEN n.type = "Projector" /\ n.Name = vs.projector
    ELSE CASE ConstType(vs.source) # "none" ->
                n.type = ConstType(vs.source) /\ n.Value = vs.val
           [] vs.source = "from_input" ->
                \/ n.type = "Root"
                \/ n.type = "Argument" /\ n.Index = vs.val.arg
           [] vs.source = "from_destination" -> n.type = "Target" /\ ~n.IsVariable
           [] vs.source = "from_local_var" -> n.type = "Target" /\ n.IsVariable
           [] vs.source = "projected_value" ->
                vs.val.projector # "" => (n.type = "Projector" /\ n.Name = vs.val.projector)
           [] OTHER -> FALSE

\* the sources that make one node each: constants and projector calls
MakesOneNode(vs, called) ==
    \/ called /\ vs.projector # ""
    \/ ConstType(vs.source) # "none"
    \/ vs.source = "from_input" /\ vs.val.field = <<>>
    \/ vs.source = "projected_value"

\* the positional arguments of the call vs, as value sources
CallArgs(vs) == IF vs.source = "nil" THEN <<>> ELSE <<vs>> \o vs.additional_arg

\* the Projector node id has, in ArgumentEdges, one node for each argument of the
\* call vs it was made for
ArgumentsListed(g, id, vs) ==
    LET args == CallArgs(vs) IN
    (\A k \in 1..Len(args) : MakesOneNode(args[k], FALSE)) =>
        /\ id \in DOMAIN g.ArgumentEdges
        /\ Len(g.ArgumentEdges[id]) = Len(args)
        /\ \A k \in 1..Len(args) : NodeIsFor(g, g.ArgumentEdges[id][k], args[k], FALSE)

\* C15: in a built graph the Edges list of a Target node holds the node(s) of the
\* value source of its mapping and nothing of its condition; its ConditionEdges
\* list holds the node(s) of the condition (none without a condition) and nothing
\* of the value source; a condition that calls a projector other than $And is one
\* Projector node of that name, with the call's arguments in ArgumentEdges of that
\* Projector node.
C15_ConditionAndValueSeparate ==
    status = "ok" =>
        \A t \in NodesOfType(graph, "Target") :
            LET m == graph.Nodes[t].msg
                value == m.value_source
                cond == m.condition
            IN  /\ \A id \in Range(graph.Edges[t]) : NodeIsFor(graph, id, value, TRUE)
                /\ MakesOneNode(value, TRUE) => Len(graph.Edges[t]) = 1
                /\ t \in DOMAIN graph.ConditionEdges
                /\ cond.mtype = "nil" => graph.ConditionEdges[t] = <<>>
                /\ (cond.mtype # "nil" /\ cond.projector # "$And") =>
                       /\ \A id \in Range(graph.ConditionEdges[t]) :
                             NodeIsFor(graph, id, cond, TRUE)
                       /\ MakesOneNode(cond, TRUE) => Len(graph.ConditionEdges[t]) = 1
                       /\ cond.projector # "" =>
                             ArgumentsListed(graph, graph.ConditionEdges[t][1], cond)

\* x (if $Eq(4, 2)): 5 has been built: ConditionEdges[x] is the $Eq Projector node
\* with ArgumentEdges [4, 2], Edges[x] is the node of 5
C15_Witness ==
    /\ mpc = CfgCond
    /\ status = "ok"
    /\ \E t \in NodesOfType(graph, "Target"), c \in NodesOfType(graph, "Projector") :
          /\ graph.ConditionEdges[t] = <<c>>
          /\ graph.Nodes[c].Name = "$Eq"
          /\ Len(graph.ArgumentEdges[c]) = 2
          /\ graph.Nodes[graph.ArgumentEdges[c][1]].Value = 4
          /\ graph.Nodes[graph.ArgumentEdges[c][2]].Value = 2
          /\ Len(graph.Edges[t]) = 1
          /\ graph.Nodes[graph.Edges[t][1]].Value = 5

(***************************************************************************)
(* C16                                                                     *)
(***************************************************************************)
\* C16: in a built graph the ConditionEdges list of a Target node whose mapping has
\* a $And condition holds no Projector node named $And; it holds one node for each
\* positional argument of the $And, the primary source first and then the
\* additional arguments in declared order.
C16_AndElided ==
    status = "ok" =>
        \A t \in NodesOfType(graph, "Target") :
            LET cond == graph.Nodes[t].msg.condition
                args == CallArgs(cond)
            IN  (cond.mtype # "nil" /\ cond.projector = "$And") =>
                    /\ \A id \in Range(graph.ConditionEdges[t]) :
                          ~(graph.Nodes[id].type = "Projector" /\ graph.Nodes[id].Name = "$And")
                    /\ (\A k \in 1..Len(args) : MakesOneNode(args[k], FALSE)) =>
                          /\ Len(graph.ConditionEdges[t]) = Len(args)
                          /\ \A k \in 1..Len(args) :
                                NodeIsFor(graph, graph.ConditionEdges[t][k], args[k], FALSE)
                    /\ \A id \in Range(graph.Edges[t]) :
                          NodeIsFor(graph, id, graph.Nodes[t].msg.value_source, TRUE)

\* x (if $And(true, $Eq(1, 2), false)): 5 has been built: ConditionEdges[x] is
\* [true, $Eq, false] and the graph has no $And node
C16_Witness ==
    /\ mpc = CfgAnd
    /\ status = "ok"
    /\ \A id \in DOMAIN graph.Nodes : graph.Nodes[id].Name # "$And"
    /\ \E t \in NodesOfType(graph, "Target") :
          /\ Len(graph.ConditionEdges[t]) = 3
          /\ graph.Nodes[graph.ConditionEdges[t][1]].type = "ConstBool"
          /\ graph.Nodes[graph.ConditionEdges[t][1]].Value = TRUE
          /\ graph.Nodes[graph.ConditionEdges[t][2]].Name = "$Eq"
          /\ graph.Nodes[graph.ConditionEdges[t][3]].type = "ConstBool"
          /\ graph.Nodes[graph.ConditionEdges[t][3]].Value = FALSE

(***************************************************************************)
(* C17                                                                     *)
(***************************************************************************)
\* the condition of an else branch: $Not applied to a projected value
ElseCondition(cond) ==
    /\ cond.mtype # "nil"
    /\ cond.projector = "$Not"
    /\ cond.source = "projected_value"
    /\ cond.additional_arg = <<>>

\* node id of g is the node of the value inner that $Not is applied to: a constant
\* node, or the Projector node of the call when inner is or wraps a call
NodeIsInner(g, id, inner) ==
    LET n == g.Nodes[id] IN
    IF inner.projector # "" THEN n.type = "Projector" /\ n.Name = inner.projector
    ELSE IF ConstType(inner.source) # "none"
    THEN n.type = ConstType(inner.source) /\ n.Value = inner.val
    ELSE /\ inner.source = "projected_value"
         /\ n.type = "Projector"
         /\ n.Name = inner.val.projector

\* C17: in a built graph the ConditionEdges list of a Target node whose condition
\* is $Not applied to a projected value holds one Projector node named $Not; the
\* ArgumentEdges list of that node holds one node, the node of the inner value (a
\* constant node, or the Projector node of the inner call), which has the id after
\* that of the $Not node: no node stands for the wrapping projected value.
C17_NotOfProjectedValue ==
    status = "ok" =>
        \A t \in NodesOfType(graph, "Target") :
            LET cond == graph.Nodes[t].msg.condition IN
            ElseCondition(cond) =>
                /\ Len(graph.ConditionEdges[t]) = 1
                /\ LET c == graph.ConditionEdges[t][1] IN
                   /\ graph.Nodes[c].type = "Projector"
                   /\ graph.Nodes[c].Name = "$Not"
                   /\ graph.Edges[c] = <<>>
                   /\ graph.ArgumentEdges[c] = <<c + 1>>
                   /\ NodeIsInner(graph, c + 1, cond.val)

\* the else branches of CfgNot have been built: $Not of the constant true, and
\* $Not of the call bar()
C17_Witness ==
    /\ mpc = CfgNot
    /\ status = "ok"
    /\ \E b, c \in NodesOfType(graph, "Target") :
          /\ ElseCondition(graph.Nodes[b].msg.condition)
          /\ ElseCondition(graph.Nodes[c].msg.condition)
          /\ graph.Nodes[graph.ConditionEdges[b][1]].Name = "$Not"
          /\ graph.Nodes[graph.ArgumentEdges[graph.ConditionEdges[b][1]][1]].type = "ConstBool"
          /\ graph.Nodes[graph.ConditionEdges[c][1]].Name = "$Not"
          /\ graph.Nodes[graph.ArgumentEdges[graph.ConditionEdges[c][1]][1]].Name = "bar"
          /\ graph.Nodes[c].msg.condition.val.projector = ""

(***************************************************************************)
(* C18                                                                     *)
(***************************************************************************)
RECURSIVE ChildTargets(_, _)
\* the Target nodes reached from the nodes ids along Edges lists through nodes
\* that are no Target nodes
ChildTargets(g, ids) ==
    LET next == UNION {Range(g.Edges[id]) : id \in ids}
        targets == {id \in next : g.Nodes[id].type = "Target"}
    IN  IF next = {} THEN {}
        ELSE targets \cup ChildTargets(g, next \ targets)

RECURSIVE PathMatches(_, _, _)
\* the Target nodes the path names, looked up among the Target nodes cands: a
\* target whose name is the path or a prefix of it matches, and the rest of the
\* path is looked up among the targets written under it
PathMatches(g, cands, path) ==
    UNION {LET k == matchUpToDiff(g.Nodes[t].Name, path)
           IN  IF k = 0 THEN {}
               ELSE IF k = Len(path) THEN {t}
               ELSE PathMatches(g, ChildTargets(g, {t}), SubSeq(path, k + 1, Len(path)))
           : t \in cands}

\* the fields written before Target node x in the scope of x
WrittenBefore(g, x) ==
    {t \in NodesOfType(g, "Target") :
        /\ t < x
        /\ ~g.Nodes[t].IsVariable
        /\ g.Nodes[t].Context = g.Nodes[x].Context
        /\ \A p \in DOMAIN g.Edges : x \in Range(g.Edges[p]) => t \in Range(g.Edges[p])}

\* a mapping whose value is a plain FromDestination reference
ReadsDestination(m) ==
    /\ m.value_source.mtype = "ValueSource"
    /\ m.value_source.source = "from_destination"
    /\ m.value_source.projector = ""

\* a root mapping of c reads a destination that no earlier root mapping writes
RootDestUnmatched(c) ==
    \E i \in 1..Len(c.root_mapping) :
        /\ ReadsDestination(c.root_mapping[i])
        /\ \A j \in 1..(i - 1) :
              \/ c.root_mapping[j].target.kind = "target_local_var"
              \/ matchUpToDiff(c.root_mapping[j].target.name,
                               c.root_mapping[i].value_source.val) = 0

\* C18: in a built graph the Edges list of a Target node whose value is a
\* FromDestination(path) reference names exactly the Target nodes that match the
\* path among the fields written earlier in its scope, all of them when several
\* mappings wrote the name, and for a dotted path the targets of the remaining
\* path in the body of the projector the first part calls; there is at least one.
\* A build whose root mapping reads a destination nothing matches returns an error.
C18_DestinationEdges ==
    /\ status = "ok" =>
          \A x \in NodesOfType(graph, "Target") :
              ReadsDestination(graph.Nodes[x].msg) =>
                  /\ Range(graph.Edges[x]) =
                         PathMatches(graph, WrittenBefore(graph, x),
                                     graph.Nodes[x].msg.value_source.val)
                  /\ graph.Edges[x] # <<>>
    /\ (Returned /\ RootDestUnmatched(mpc)) =>
          (status = "err" /\ errKind = "UnknownDestination")

\* x: dest a.b has been built where the body of the projector called by a writes
\* b twice: both Target nodes b are in Edges[x]
C18_Witness ==
    /\ mpc = CfgDestCondField
    /\ status = "ok"
    /\ \E x, b1, b2 \in NodesOfType(graph, "Target") :
          /\ graph.Nodes[x].Name = <<"x">>
          /\ b1 # b2
          /\ graph.Nodes[b1].Name = <<"b">>
          /\ graph.Nodes[b2].Name = <<"b">>
          /\ graph.Nodes[b1].Context = "foo"
          /\ Range(graph.Edges[x]) = {b1, b2}
          /\ Len(graph.Edges[x]) = 2

DeclaresVar(m, path) ==
    m.target.kind = "target_local_var" /\ matchUpToDiff(m.target.name, path) > 0

\* mapping k of the mappings ms reads a local variable that no earlier mapping of
\* ms declares
ReadsForeignVar(ms, k) ==
    /\ ms[k].value_source.mtype = "ValueSource"
    /\ ms[k].value_source.source = "from_local_var"
    /\ ms[k].value_source.projector = ""
    /\ \A j \in 1..(k - 1) : ~DeclaresVar(ms[j], ms[k].value_source.val)

\* root mapping i of c calls the anonymous block d, whose mapping k reads a
\* variable that the block does not declare and an earlier root mapping does
AnonReadsEnclosingVar(c, i, d, k) ==
    /\ HasAnonPrefix(c.projector[d].name)
    /\ c.root_mapping[i].value_source.mtype = "ValueSource"
    /\ c.root_mapping[i].value_source.projector = c.projector[d].name
    /\ ReadsForeignVar(c.projector[d].mapping, k)
    /\ \E j \in 1..(i - 1) :
          DeclaresVar(c.root_mapping[j], c.projector[d].mapping[k].value_source.val)

\* C20: when New has returned for a mapping config in which an anonymous block
\* reads a local variable that it does not declare itself and that the enclosing
\* scope declared before the block is called, it has returned a graph, and in it
\* the Edges list of the reading Target node names the variable node(s) of the
\* enclosing scope.
C20_ParentScopeLookup ==
    \A i \in DOMAIN mpc.root_mapping, d \in DOMAIN mpc.projector :
        \A k \in DOMAIN mpc.projector[d].mapping :
            (Returned /\ AnonReadsEnclosingVar(mpc, i, d, k)) =>
                /\ status = "ok"
                /\ \E y \in NodesOfType(graph, "Target") :
                      /\ graph.Nodes[y].msg = mpc.projector[d].mapping[k]
                      /\ graph.Nodes[y].Context = mpc.projector[d].name
                      /\ graph.Edges[y] # <<>>
                      /\ \A v \in Range(graph.Edges[y]) :
                            /\ graph.Nodes[v].type = "Target"
                            /\ graph.Nodes[v].IsVariable
                            /\ graph.Nodes[v].Context = "root"

(***************************************************************************)
(* C21                                                                     *)
(***************************************************************************)
\* the fields (isVar = FALSE) or local variables (isVar = TRUE) that the mappings
\* before Target node x wrote in the body x belongs to
WrittenInBody(g, x, isVar) ==
    {t \in NodesOfType(g, "Target") :
        /\ t < x
        /\ g.Nodes[t].IsVariable = isVar
        /\ g.Nodes[t].Context = g.Nodes[x].Context
        /\ \A p \in DOMAIN g.Edges : x \in Range(g.Edges[p]) => t \in Range(g.Edges[p])}

\* a mapping whose value is a plain FromLocalVar reference
ReadsLocalVar(m) ==
    /\ m.value_source.mtype = "ValueSource"
    /\ m.value_source.source = "from_local_var"
    /\ m.value_source.projector = ""

\* C21: in a built graph, a Target node in the body of a projector that is no
\* anonymous block and whose value is a FromDestination or FromLocalVar reference
\* has edges only to nodes the path names among the fields, or variables, written
\* earlier in that same body.
C21_BodiesHermetic ==
    status = "ok" =>
        \A x \in NodesOfType(graph, "Target") :
            LET m == graph.Nodes[x].msg IN
            (/\ graph.Nodes[x].Context # "root"
             /\ ~HasAnonPrefix(graph.Nodes[x].Context)
             /\ (ReadsDestination(m) \/ ReadsLocalVar(m))) =>
                Range(graph.Edges[x]) \subseteq
                    PathMatches(graph, WrittenInBody(graph, x, ReadsLocalVar(m)),
                                m.value_source.val)

(***************************************************************************)
(* C22                                                                     *)
(***************************************************************************)
\* an invoked projector of c that a condition of a mapping of its own body calls
CalledFromOwnCondition(c) ==
    \E p \in Invoked(c) :
        \E m \in Range(Projectors(c)[p].mapping) : p \in HeadCall(m.condition)

\* C22: when New has returned for a mapping config in which an invoked projector
\* is called from the condition of a mapping of its own body, it has returned a
\* recursion error.
C22_ConditionRecursionRejected ==
    (Returned /\ CalledFromOwnCondition(mpc)) =>
        (status = "err" /\ errKind = "RecursiveMapping")

(***************************************************************************)
(* C23                                                                     *)
(***************************************************************************)
\* the node ids recorded in a table of lineages (name -> list of lineages)
RecordedIn(table) ==
    UNION {{table[k][i].node : i \in 1..Len(table[k])} : k \in DOMAIN table}

\* the node ids recorded in RootAndOutTargets
RecordedRootAndOut(g) == UNION {Range(g.RootAndOutTargets[k]) : k \in DOMAIN g.RootAndOutTargets}

\* frame fr of a node that is being processed keeps the order arguments,
\* conditions, main ancestors, and its Target node is recorded nowhere yet
FrameInOrder(fr) ==
    LET d == fr.desc IN
    d # NoNode =>
        /\ fr.phase = "args" => (graph.Edges[d] = <<>> /\ ListOf(graph, "ConditionEdges", d) = <<>>)
        /\ fr.conds # <<>> => graph.Edges[d] = <<>>
        /\ graph.Nodes[d].type # "Projector" => ListOf(graph, "ArgumentEdges", d) = <<>>
        /\ graph.Nodes[d].type = "Target" =>
              /\ d \notin DOMAIN graph.targetLineages
              /\ d \notin RecordedRootAndOut(graph)
              /\ \A e \in 1..Len(envs) :
                    d \notin RecordedIn(envs[e].targets) \cup RecordedIn(envs[e].vars)

\* in a built graph the nodes made for the conditions of a Target have smaller
\* ids than the nodes made for its value source, and the nodes made for the
\* arguments of a call smaller ids than the Target nodes of the body
CreatedInOrder(g) ==
    \A d \in DOMAIN g.Edges :
        \A e \in {x \in Range(g.Edges[d]) : x > d} :
            /\ \A c \in {x \in Range(ListOf(g, "ConditionEdges", d)) : x > d} : c < e
            /\ \A a \in {x \in Range(ListOf(g, "ArgumentEdges", d)) : x > d} : a < e

\* C23: while a node is processed, no main ancestor is attached before every
\* condition is, and none of the two before every argument of a Projector node
\* is; a Target node is cached and recorded in a scope or in RootAndOutTargets
\* only when its frame is complete; so in a built graph the nodes created for
\* the conditions of a target have smaller ids than those created for its value.
C23_LineageOrder ==
    /\ Running => \A j \in 1..Len(stack) : FrameInOrder(stack[j])
    /\ status = "ok" =>
          /\ CreatedInOrder(graph)
          /\ NodesOfType(graph, "Target") \subseteq DOMAIN graph.targetLineages

\* x (if $Eq(4, 2)): 5 has been built: $Eq and its arguments were created before 5
C23_Witness ==
    /\ mpc = CfgCond
    /\ status = "ok"
    /\ \E t \in NodesOfType(graph, "Target") :
          /\ Len(graph.ConditionEdges[t]) = 1
          /\ Len(graph.Edges[t]) = 1
          /\ t < graph.ConditionEdges[t][1]
          /\ graph.ConditionEdges[t][1] < graph.Edges[t][1]
          /\ Len(graph.ArgumentEdges[graph.ConditionEdges[t][1]]) = 2
          /\ graph.ArgumentEdges[graph.ConditionEdges[t][1]][2] < graph.Edges[t][1]
          /\ t \in DOMAIN graph.targetLineages

(***************************************************************************)
(* C24                                                                     *)
(***************************************************************************)
EdgeMaps == {"Edges", "ArgumentEdges", "ConditionEdges"}

\* the environment in which the next whistler node is materialized
NextEnv == IF NextKind = "main" THEN envs[Top.aenv] ELSE envs[Top.env]

\* the node getNode returns for the next whistler node: [err, node]
NextNode ==
    IF NextItem.nodeInGraph # NoNode
    THEN [err |-> "", node |-> graph.Nodes[NextItem.nodeInGraph]]
    ELSE newNode(NextItem.msg, NextEnv, newIncID(autoIncID).id)

\* every list of g is a list of h, unchanged, except the list of node id in the
\* map named which
SameListsExcept(g, h, which, id) ==
    \A w \in EdgeMaps : \A k \in DOMAIN g[w] :
        (w # which \/ k # id) => (k \in DOMAIN h[w] /\ h[w][k] = g[w][k])

\* the outcome r of addNode(g, node, descendant, isArg, isCondition, ...) has the
\* frame effect of C24
AddNodeEffect(g, node, descendant, isArg, isCondition, r) ==
    LET which == IF isArg THEN "ArgumentEdges"
                 ELSE IF isCondition THEN "ConditionEdges" ELSE "Edges"
    IN  IF descendant = NoNode
        THEN /\ r.err = ""
             /\ SameListsExcept(g, r.g, "none", NoNode)
             /\ \A w \in EdgeMaps : \A k \in DOMAIN r.g[w] \ DOMAIN g[w] : r.g[w][k] = <<>>
        ELSE r.err \notin {"DanglingEdge", "AlreadyInGraph"} =>
                /\ r.g[which][descendant] = Append(g[which][descendant], node.id)
                /\ SameListsExcept(g, r.g, which, descendant)
                /\ \A w \in EdgeMaps : \A k \in DOMAIN r.g[w] \ DOMAIN g[w] :
                      k = node.id /\ r.g[w][k] = <<>>

\* C24: addNode, applied in any state of a build to the node of the next whistler
\* node and the node being processed, with any values of isArg and isCondition,
\* appends the node's id to one list of the descendant (ArgumentEdges if isArg,
\* else ConditionEdges if isCondition, else Edges) and changes no other list of
\* any node already in the graph; without descendant it appends nothing and
\* returns no recursion error.
C24_AddNodeFrame ==
    (NextKind # "none" /\ NextNode.err = "") =>
        \A isArg \in BOOLEAN, isCondition \in BOOLEAN :
            \A r \in addNode(graph, NextNode.node, Top.desc, isArg, isCondition,
                             NextItem.nodeInGraph = NoNode) :
                AddNodeEffect(graph, NextNode.node, Top.desc, isArg, isCondition, r)

\* two conditions of x (if $And(true, $Eq(1, 2), false)) are attached, the third
\* is next: ConditionEdges[x] has two entries and Edges[x] none
C24_Witness ==
    /\ mpc = CfgAnd
    /\ NextKind = "cond"
    /\ Top.desc # NoNode
    /\ Len(graph.ConditionEdges[Top.desc]) = 2
    /\ graph.Edges[Top.desc] = <<>>
    /\ Top.desc \notin DOMAIN graph.ArgumentEdges

(***************************************************************************)
(* C25                                                                     *)
(***************************************************************************)
\* the whistler node attached next is a FromInput value source to materialize
NextIsFromInput ==
    /\ NextKind # "none"
    /\ NextItem.nodeInGraph = NoNode
    /\ NextItem.msg.mtype = "ValueSource"
    /\ NextItem.msg.source = "from_input"

\* the node of frame fr, if made from a FromInput, has the variant its index
\* selects among the n slots of the scope it was made in
FromInputVariant(fr) ==
    LET d == fr.desc
        n == Len(envs[fr.env].args)
    IN  (d # NoNode /\ graph.Nodes[d].type \in {"Root", "Argument"}) =>
            LET arg == graph.Nodes[d].msg.val.arg IN
            /\ graph.Nodes[d].type = "Root" => arg = n + 1
            /\ graph.Nodes[d].type = "Argument" =>
                  (1 <= arg /\ arg <= n /\ graph.Nodes[d].Index = arg)

\* when the ancestors of a FromInput node are attached, a Root node has none and
\* an Argument node without field path has the bindings of its slot
FromInputAncestors ==
    /\ TopDone("Root") => graph.Edges[Top.desc] = <<>>
    /\ (TopDone("Argument") /\ graph.Nodes[Top.desc].Field = <<>>) =>
          graph.Edges[Top.desc] = SlotIds(envs[Top.env].args[graph.Nodes[Top.desc].Index])

\* a FromInput whose index is below 1 or above n + 1 ends the build with an
\* out-of-range error; one in range does not
FromInputRangeStep ==
    NextIsFromInput =>
        LET arg == NextItem.msg.val.arg
            n == Len(NextEnv.args)
        IN  IF arg < 1 \/ arg > n + 1
            THEN status' = "err" /\ errKind' = "ArgIndexOutOfRange" /\ graph' = EmptyGraph
            ELSE errKind' # "ArgIndexOutOfRange"

\* C25: in a scope with n bound argument slots a FromInput with arg = n + 1 is
\* materialized as a Root node without ancestors, one with 1 <= arg <= n as an
\* Argument node with Index arg whose ancestors are the bindings of slot arg, and
\* one with arg < 1 or arg > n + 1 makes New return an out-of-range error.
C25_FromInputIndex ==
    /\ [](Running => ((\A j \in 1..Len(stack) : FromInputVariant(stack[j])) /\ FromInputAncestors))
    /\ [][FromInputRangeStep]_vars

\* the body of f, called with one argument, read $root as argument 2 and then
\* argument 3: the build has failed with the out-of-range error
C25_Witness ==
    /\ mpc = CfgArgHigh
    /\ status = "err"
    /\ errKind = "ArgIndexOutOfRange"

(***************************************************************************)
(* C26                                                                     *)
(***************************************************************************)
MaxPath == 3

IsPrefix(a, b) == Len(a) <= Len(b) /\ SubSeq(b, 1, Len(a)) = a

\* the number of path components the stored target name consumes
Consumed(name, path) ==
    IF IsPrefix(name, path) THEN Len(name)
    ELSE IF IsPrefix(path, name) THEN Len(path)
    ELSE 0

RECURSIVE ReachedNodes(_, _, _)
\* the nodes reached from currNode by consuming the whole path in lineages
ReachedNodes(path, currNode, lineages) ==
    IF path = <<>> THEN {currNode} \ {NoNode}
    ELSE UNION {UNION {ReachedNodes(SubSeq(path, Consumed(k, path) + 1, Len(path)),
                                    lineages[k][i].node, lineages[k][i].childTargets)
                       : i \in 1..Len(lineages[k])}
                : k \in {n \in DOMAIN lineages : Consumed(n, path) > 0}}

RECURSIVE SumFn(_)
SumFn(f) ==
    IF DOMAIN f = {} THEN 0
    ELSE LET x == CHOOSE y \in DOMAIN f : TRUE
         IN  f[x] + SumFn([y \in DOMAIN f \ {x} |-> f[y]])

RECURSIVE NumWalks(_, _, _)
\* the number of ways to consume the whole path in lineages
NumWalks(path, currNode, lineages) ==
    IF path = <<>> THEN IF currNode = NoNode THEN 0 ELSE 1
    ELSE SumFn([k \in {n \in DOMAIN lineages : Consumed(n, path) > 0} |->
                SumFn([i \in 1..Len(lineages[k]) |->
                       NumWalks(SubSeq(path, Consumed(k, path) + 1, Len(path)),
                                lineages[k][i].node, lineages[k][i].childTargets)])])

\* the name parts of the keys of a lineage table and of its child tables
RECURSIVE NameParts(_)
NameParts(lineages) ==
    UNION {{k[i] : i \in 1..Len(k)} \cup
           UNION {NameParts(lineages[k][i].childTargets) : i \in 1..Len(lineages[k])}
           : k \in DOMAIN lineages}

PathsOver(parts) == UNION {[1..n -> parts] : n \in 0..MaxPath}

\* the lookups the program can make in the current state: a start node (none
\* for a scope table) and the table searched from it
Lookups ==
    UNION {{[node |-> NoNode, table |-> envs[e].targets],
            [node |-> NoNode, table |-> envs[e].vars]} \cup
           UNION {{[node |-> envs[e].args[k][i].node,
                    table |-> envs[e].args[k][i].childTargets]
                   : i \in 1..Len(envs[e].args[k])}
                  : k \in 1..Len(envs[e].args)}
           : e \in DOMAIN envs}

FindReturnsReached(path, node, table) ==
    \A r \in findNodesInGraph(path, node, table) :
        /\ {r[i] : i \in 1..Len(r)} = ReachedNodes(path, node, table)
        /\ Len(r) = NumWalks(path, node, table)
        /\ (r = <<>>) = (ReachedNodes(path, node, table) = {})

\* C26: findNodesInGraph(path, node, lineages) returns the nodes reached by
\* consuming the whole path, where a stored name consumes min(parts of the name,
\* remaining path) components when the compared components are equal and none
\* otherwise; it returns the error exactly when no node is reached, and the empty
\* path returns the current node.
C26_FindNodesInGraph ==
    \A l \in Lookups :
        /\ \A path \in PathsOver(NameParts(l.table)) : FindReturnsReached(path, l.node, l.table)
        /\ l.node # NoNode => findNodesInGraph(<<>>, l.node, l.table) = {<<l.node>>}

\* the root scope records the targets a and a.b: the path [a] reaches both and
\* the path [a, b] reaches a.b and the b under a
C26_Witness ==
    /\ mpc = CfgDotted
    /\ <<"a", "b">> \in DOMAIN envs[1].targets
    /\ \E r \in findNodesInGraph(<<"a">>, NoNode, envs[1].targets) :
          /\ Len(r) = 2
          /\ envs[1].targets[<<"a", "b">>][1].node \in {r[i] : i \in 1..Len(r)}
    /\ \E r \in findNodesInGraph(<<"a", "b">>, NoNode, envs[1].targets) : Len(r) = 2
    /\ findNodesInGraph(<<"a", "z">>, NoNode, envs[1].targets) = {<<>>}

(***************************************************************************)
(* C27                                                                     *)
(***************************************************************************)
\* the ids listed for node id in the edge map which
Listed(g, which, id) == {g[which][id][i] : i \in 1..Len(g[which][id])}

\* the targets made from the body of a projector: its main ancestors
BodyTargets(g) ==
    UNION {Listed(g, "Edges", p) : p \in {q \in DOMAIN g.Nodes : g.Nodes[q].type = "Projector"}}

\* nodes made for id, as opposed to existing targets attached to it
MadeFor(g, which, id) == {a \in Listed(g, which, id) : g.Nodes[a].type # "Target"}

ContextIsScope(g) ==
    \A id \in DOMAIN g.Nodes :
        LET n == g.Nodes[id] IN
        /\ (n.type = "Target" /\ id \notin BodyTargets(g)) => n.Context = "root"
        /\ n.type = "Target" =>
              \A a \in MadeFor(g, "Edges", id) \cup MadeFor(g, "ConditionEdges", id) :
                  g.Nodes[a].Context = n.Context
        /\ n.type = "Projector" =>
              /\ \A t \in Listed(g, "Edges", id) :
                    g.Nodes[t].type = "Target" /\ g.Nodes[t].Context = n.Name
              /\ \A a \in MadeFor(g, "ArgumentEdges", id) : g.Nodes[a].Context = n.Context

\* C27: the Context of a node is the name of the scope it was created in:
\* "root" for the target of a root mapping, the Context of the target for the
\* conditions, constants, Argument and Projector nodes made for its mapping, the
\* Context of the Projector node (its caller's scope) for the nodes of its
\* call-site arguments, and the projector's name for the targets of its body.
C27_ContextIsScope == ContextIsScope(graph)

\* x: f(1)   f(a) { y: g(a) }   g(b) { z: b } is built: x and the constant
\* have Context root, y and its Argument node f, z and its Argument node g
C27_Witness ==
    /\ mpc = CfgPassOn
    /\ status = "ok"
    /\ {graph.Nodes[id].Context : id \in DOMAIN graph.Nodes} = {"root", "f", "g"}
    /\ \E id \in DOMAIN graph.Nodes :
          /\ graph.Nodes[id].type = "Argument"
          /\ graph.Nodes[id].Context = "f"
          /\ \E p \in DOMAIN graph.Nodes :
                /\ graph.Nodes[p].type = "Projector"
                /\ graph.Nodes[p].Name = "g"
                /\ graph.Nodes[p].Context = "f"
                /\ id \in Listed(graph, "ArgumentEdges", p)

(***************************************************************************)
(* C28                                                                     *)
(***************************************************************************)
\* no value occurs twice in the sequence q
NoRepeat(q) == \A i, j \in 1..Len(q) : q[i] = q[j] => i = j

\* the lineages a scope table lists under each name are of distinct targets
TableOnce(table) ==
    \A k \in DOMAIN table : NoRepeat([i \in 1..Len(table[k]) |-> table[k][i].node])

\* C28: a target is recorded once, when it is created: under its name a scope's
\* targets or vars table lists no target twice, RootAndOutTargets lists no id
\* twice, and no Target or Argument node has the same ancestor twice in Edges.
C28_RecordedOnce ==
    /\ \A e \in DOMAIN envs : TableOnce(envs[e].targets) /\ TableOnce(envs[e].vars)
    /\ \A k \in DOMAIN graph.RootAndOutTargets : NoRepeat(graph.RootAndOutTargets[k])
    /\ \A id \in DOMAIN graph.Nodes :
          graph.Nodes[id].type \in {"Target", "Argument"} => NoRepeat(graph.Edges[id])

(***************************************************************************)
(* C29                                                                     *)
(***************************************************************************)
\* an invoked projector that a mapping of its own body, in its value source, an
\* argument or a condition, transitively invokes again
HasCallCycle(c) ==
    \E p \in Invoked(c) : \E q \in AllCalls(c, p) : p \in CallClosure(c, {q})

\* C29: New returns a recursion error only for a mapping config in which some
\* projector is transitively invoked from a mapping of its own body; a config
\* without such a cycle is never rejected as recursive.
C29_OnlyCyclesRejected ==
    (status = "err" /\ errKind = "RecursiveMapping") => HasCallCycle(mpc)

(***************************************************************************)
(* C30                                                                     *)
(***************************************************************************)
\* C30: a call of isRecursive on a finite graph returns, also when Edges hold a
\* cycle among nodes that are not payload-equal to the checked node, and a second
\* call on the same graph and node returns what the first returned, whatever
\* order the range over g.Nodes takes.
C30_IsRecursiveReturns ==
    /\ rec.result # "overflow"
    /\ (rec.phase = "done" /\ rec.calls > 1) => rec.result = rec.last

====
